---- MODULE Spec2Model ----
(***************************************************************************)
(* A model of the NES control deck of bitmelody/nes-emulator-wasm: the     *)
(* 6502 CPU (src/console/cpu.rs), the PPU register file and dot counter    *)
(* (src/console/ppu.rs), the APU frame counter (src/console/apu.rs), the   *)
(* joypad shift register (src/input.rs) and the deck loop that interleaves *)
(* them (src/console.rs).                                                  *)
(*                                                                         *)
(* One deck step (Console::clock) is three phases: the CPU executes one    *)
(* instruction (or burns one stall cycle), then the PPU loop runs, then    *)
(* the APU loop runs.  Each loop iteration is one step of the model.       *)
(***************************************************************************)
EXTENDS Integers, Sequences, FiniteSets, TLC

VARIABLES cpu, mem, deck, io, ghost, dbg, mmc5, sav, sram, fr, ui, mmc1

\* the variables of the parts of the program that run beside the deck
side == <<mmc5, sav, sram, fr, ui, mmc1>>

\* side without one of its parts
beside_mmc5 == <<sav, sram, fr, ui, mmc1>>
beside_sav == <<mmc5, sram, fr, ui, mmc1>>
beside_sram == <<mmc5, sav, fr, ui, mmc1>>
beside_fr == <<mmc5, sav, sram, ui, mmc1>>
beside_ui == <<mmc5, sav, sram, fr, mmc1>>
beside_mmc1 == <<mmc5, sav, sram, fr, ui>>

vars == <<cpu, mem, deck, io, ghost, dbg, side>>

(***************************************************************************)
(* Bounds of the exploration.                                              *)
(***************************************************************************)
\* number of freely chosen instructions executed after a cartridge's fixed
\* prologue and NOP sled
MaxSteps == 3

(***************************************************************************)
(* Program constants.                                                      *)
(***************************************************************************)
NMI_ADDR == 65530
IRQ_ADDR == 65534
RESET_ADDR == 65532
MASTER_CLOCK_RATE == 21477270
SAMPLE_RATE == 96000
POWER_ON_SP == 253
POWER_ON_STATUS == 36
POWER_ON_CYCLES == 7
SP_BASE == 256

\* StatusRegs
C == 1
Z == 2
I == 4
D == 8
B == 16
U == 32
V == 64
N == 128

VISIBLE_SCANLINE_CYCLE_END == 340
PRERENDER_CYCLE_END == 339
PRERENDER_SCANLINE == 261
VBLANK_SCANLINE == 241
NMI_DELAY == 15

(***************************************************************************)
(* Bytes, words and bits.                                                  *)
(***************************************************************************)
Byte(n) == n % 256
Word(n) == n % 65536
Lo(w) == w % 256
Hi(w) == (w \div 256) % 256
MkWord(hi, lo) == hi * 256 + lo

\* mask is a single-bit mask
HasBit(val, mask) == (val \div mask) % 2 = 1
SetBit(val, mask) == IF HasBit(val, mask) THEN val ELSE val + mask
ClearBit(val, mask) == IF HasBit(val, mask) THEN val - mask ELSE val
PutBit(val, mask, on) == IF on THEN SetBit(val, mask) ELSE ClearBit(val, mask)

\* sparse byte memories: a function over the addresses written so far,
\* every other address holds 0
EmptyMem == [a \in {} |-> 0]
MemGet(m, a) == IF a \in DOMAIN m THEN m[a] ELSE 0
MemSet(m, a, val) == [x \in (DOMAIN m) \cup {a} |-> IF x = a THEN val ELSE m[x]]

(***************************************************************************)
(* PPU registers (PpuRegs, PpuCtrl, PpuMask, PpuStatus).                   *)
(***************************************************************************)
nmi_enabled(p) == HasBit(p.ctrl, 128)
vram_increment(p) == IF HasBit(p.ctrl, 4) THEN 32 ELSE 1
vblank_started(p) == HasBit(p.status, 128)
show_background(p) == HasBit(p.mask, 8)
show_sprites(p) == HasBit(p.mask, 16)
rendering_enabled(p) == show_background(p) \/ show_sprites(p)

\* a PPU that arms the NMI delay whenever the line is high, not only when
\* it rises
nmi_change_level(p) ==
    [p EXCEPT !.nmi_delay = IF nmi_enabled(p) /\ vblank_started(p) THEN NMI_DELAY ELSE @,
              !.nmi_previous = nmi_enabled(p) /\ vblank_started(p)]

\* PpuRegs::nmi_change
nmi_change(p) ==
    LET nmi == nmi_enabled(p) /\ vblank_started(p) IN
    [p EXCEPT !.nmi_delay = IF nmi /\ ~p.nmi_previous THEN NMI_DELAY ELSE @,
              !.nmi_previous = nmi]

\* PpuRegs::write_ctrl
write_ctrl(p, val) ==
    LET nn == (p.t \div 1024) % 4
        t1 == p.t - nn * 1024 + (val % 4) * 1024
    IN nmi_change([p EXCEPT !.t = t1, !.ctrl = val])

\* Ppu::write_ppuctrl, after the register is written
ctrl_nmi_undelayed(p) ==
    IF ~p.nmi_delay_enabled /\ nmi_enabled(p) /\ vblank_started(p)
    THEN [p EXCEPT !.nmi_pending = TRUE]
    ELSE p

\* Ppu::write_ppuctrl
write_ppuctrl(p, val) == ctrl_nmi_undelayed(write_ctrl(p, val))

\* Ppu::write_ppumask
write_ppumask(p, val) == [p EXCEPT !.mask = val]

\* PpuRegs::peek_status
peek_status(p) == (p.status - (p.status % 32)) + (p.open_bus % 32)

\* a read of the status register that leaves the VBlank flag as it is
read_status_keeps_v(p) == nmi_change([p EXCEPT !.w = FALSE])

\* PpuRegs::read_status with PpuStatus::read; the value read is peek_status
\* of the register before the read
read_status(p) ==
    nmi_change([p EXCEPT !.w = FALSE, !.status = ClearBit(@, 128)])

\* Ppu::start_vblank, after the flag is set
vblank_nmi_undelayed(p) ==
    IF ~p.nmi_delay_enabled /\ nmi_enabled(p)
    THEN [p EXCEPT !.nmi_pending = TRUE]
    ELSE p

\* Ppu::start_vblank
start_vblank(p) == vblank_nmi_undelayed(nmi_change([p EXCEPT !.status = SetBit(@, 128)]))

\* Ppu::stop_vblank
stop_vblank(p) == nmi_change([p EXCEPT !.status = ClearBit(@, 128)])

\* PpuRegs::write_scroll
write_scroll(p, val) ==
    IF ~p.w
    THEN [p EXCEPT !.t = (@ - (@ % 32)) + ((val \div 8) % 32),
                   !.x = val % 8,
                   !.w = TRUE]
    ELSE LET nn == (p.t \div 1024) % 4
             bit15 == (p.t \div 32768) % 2
         IN [p EXCEPT !.t = bit15 * 32768 + (val % 8) * 4096 + nn * 1024
                            + ((val \div 8) % 32) * 32 + (p.t % 32),
                      !.w = FALSE]

\* PpuRegs::write_addr
write_addr(p, val) ==
    IF ~p.w
    THEN [p EXCEPT !.t = (@ \div 32768) * 32768 + (val % 64) * 256 + (@ % 256),
                   !.w = TRUE]
    ELSE LET t1 == (p.t \div 256) * 256 + val IN
         [p EXCEPT !.t = t1, !.v = t1, !.w = FALSE]

\* PpuRegs::read_addr
read_addr(p) == p.v % 16384

\* PpuRegs::increment_v
increment_v(p) == [p EXCEPT !.v = Word(@ + vram_increment(p))]

\* bitwise operations on naturals
RECURSIVE BitAnd(_, _)
BitAnd(a, b) ==
    IF a = 0 \/ b = 0 THEN 0
    ELSE (a % 2) * (b % 2) + 2 * BitAnd(a \div 2, b \div 2)

RECURSIVE BitOr(_, _)
BitOr(a, b) ==
    IF a = 0 THEN b
    ELSE IF b = 0 THEN a
    ELSE (IF (a % 2) + (b % 2) > 0 THEN 1 ELSE 0) + 2 * BitOr(a \div 2, b \div 2)

RECURSIVE BitXor(_, _)
BitXor(a, b) ==
    IF a = 0 THEN b
    ELSE IF b = 0 THEN a
    ELSE (((a % 2) + (b % 2)) % 2) + 2 * BitXor(a \div 2, b \div 2)

\* a with the bits of mask cleared (a & !mask on 16 bits)
BitClear(a, mask) == a - BitAnd(a, mask)

(***************************************************************************)
(* PPU scroll masks and dot constants.                                     *)
(***************************************************************************)
COARSE_X_MASK == 31
COARSE_Y_MASK == 992
NAMETABLE_X_MASK == 1024
NAMETABLE_Y_MASK == 2048
FINE_Y_MASK == 28672
X_MAX_COL == 31
VRAM_ADDR_SIZE_MASK == 32767
Y_MAX_COL == 29
Y_OVER_COL == 31
VISIBLE_CYCLE_START == 1
VISIBLE_CYCLE_END == 256
COPY_Y_CYCLE_START == 280
COPY_Y_CYCLE_END == 304
PREFETCH_CYCLE_START == 321
PREFETCH_CYCLE_END == 336
VISIBLE_SCANLINE_END == 239
RENDER_WIDTH == 256
NAMETABLE_START == 8192
NAMETABLE_SIZE == 2048
PALETTE_SIZE == 32

\* PpuRegs::copy_x
copy_x(p) ==
    LET x_mask == NAMETABLE_X_MASK + COARSE_X_MASK IN
    [p EXCEPT !.v = BitClear(p.v, x_mask) + BitAnd(p.t, x_mask)]

\* PpuRegs::copy_y
copy_y(p) ==
    LET y_mask == FINE_Y_MASK + NAMETABLE_Y_MASK + COARSE_Y_MASK IN
    [p EXCEPT !.v = BitClear(p.v, y_mask) + BitAnd(p.t, y_mask)]

\* PpuRegs::increment_x
increment_x(p) ==
    IF BitAnd(p.v, COARSE_X_MASK) = X_MAX_COL
    THEN [p EXCEPT !.v = BitXor(BitClear(p.v, COARSE_X_MASK), NAMETABLE_X_MASK)]
    ELSE [p EXCEPT !.v = Word(p.v + 1)]

\* PpuRegs::increment_x, assert!(self.v <= VRAM_ADDR_SIZE_MASK) fails
increment_x_asserts(p) ==
    BitAnd(p.v, COARSE_X_MASK) # X_MAX_COL /\ p.v + 1 > VRAM_ADDR_SIZE_MASK

\* PpuRegs::increment_y
increment_y(p) ==
    IF BitAnd(p.v, FINE_Y_MASK) # FINE_Y_MASK
    THEN [p EXCEPT !.v = Word(p.v + 4096)]
    ELSE LET v0 == BitClear(p.v, FINE_Y_MASK)
             y0 == BitAnd(v0, COARSE_Y_MASK) \div 32
             v1 == IF y0 = Y_MAX_COL THEN BitXor(v0, NAMETABLE_Y_MASK) ELSE v0
             y1 == IF y0 = Y_MAX_COL \/ y0 = Y_OVER_COL THEN 0 ELSE y0 + 1
         IN [p EXCEPT !.v = BitClear(v1, COARSE_Y_MASK) + y1 * 32]

\* Frame::increment
frame_increment(p) == [p EXCEPT !.frame_num = @ + 1, !.parity = ~@]

\* Ppu::tick, the NMI delay: the request is raised when the delay runs out
tick_nmi_raise(q) ==
    IF q.nmi_delay = 0 /\ nmi_enabled(q) /\ vblank_started(q)
    THEN [q EXCEPT !.nmi_pending = TRUE]
    ELSE q

tick_nmi(p) ==
    IF p.nmi_delay_enabled /\ p.nmi_delay > 0
    THEN tick_nmi_raise([p EXCEPT !.nmi_delay = @ - 1])
    ELSE p

\* a tick that drops the last dot of the pre-render scanline in every frame
\* that renders, odd or even
tick_advance_every_frame(p) ==
    IF rendering_enabled(p)
       /\ p.scanline = PRERENDER_SCANLINE /\ p.cycle = PRERENDER_CYCLE_END
    THEN frame_increment([p EXCEPT !.cycle = 0, !.scanline = 0])
    ELSE IF p.cycle + 1 > VISIBLE_SCANLINE_CYCLE_END
         THEN IF p.scanline + 1 > PRERENDER_SCANLINE
              THEN frame_increment([p EXCEPT !.cycle = 0, !.scanline = 0])
              ELSE [p EXCEPT !.cycle = 0, !.scanline = @ + 1]
         ELSE [p EXCEPT !.cycle = @ + 1]

\* Ppu::tick, the dot and scanline counters
tick_advance(p) ==
    IF rendering_enabled(p) /\ p.parity
       /\ p.scanline = PRERENDER_SCANLINE /\ p.cycle = PRERENDER_CYCLE_END
    THEN frame_increment([p EXCEPT !.cycle = 0, !.scanline = 0])
    ELSE IF p.cycle + 1 > VISIBLE_SCANLINE_CYCLE_END
         THEN IF p.scanline + 1 > PRERENDER_SCANLINE
              THEN frame_increment([p EXCEPT !.cycle = 0, !.scanline = 0])
              ELSE [p EXCEPT !.cycle = 0, !.scanline = @ + 1]
         ELSE [p EXCEPT !.cycle = @ + 1]

\* Ppu::tick
tick(p) == tick_advance(tick_nmi(p))

\* the scanline and cycle tests of Ppu::render_scanline
on_render_scanline(p) ==
    p.scanline = PRERENDER_SCANLINE \/ p.scanline <= VISIBLE_SCANLINE_END

fetch_cycle(p) ==
    \/ p.cycle >= PREFETCH_CYCLE_START /\ p.cycle <= PREFETCH_CYCLE_END
    \/ p.cycle >= VISIBLE_CYCLE_START /\ p.cycle <= VISIBLE_CYCLE_END

\* the four scroll updates of Ppu::render_scanline, in its order
render_copy_y(p) ==
    IF p.scanline = PRERENDER_SCANLINE /\ p.cycle >= COPY_Y_CYCLE_START
       /\ p.cycle <= COPY_Y_CYCLE_END
    THEN copy_y(p) ELSE p

render_increment_x(p) ==
    IF on_render_scanline(p) /\ fetch_cycle(p) /\ p.cycle % 8 = 0
    THEN increment_x(p) ELSE p

render_increment_y(p) ==
    IF on_render_scanline(p) /\ p.cycle = RENDER_WIDTH THEN increment_y(p) ELSE p

render_copy_x(p) ==
    IF on_render_scanline(p) /\ p.cycle = RENDER_WIDTH + 1 THEN copy_x(p) ELSE p

\* Ppu::render_scanline, the part that moves the scroll registers.  The
\* background and sprite pipelines it also drives write the Frame shift
\* registers and the Screen, which this model does not carry.
render_scanline(p) ==
    IF ~rendering_enabled(p) THEN p
    ELSE render_copy_x(render_increment_y(render_increment_x(render_copy_y(p))))

\* Ppu::clock from p reaches increment_x and its assertion fails
clock_asserts(p) ==
    /\ rendering_enabled(tick(p))
    /\ on_render_scanline(tick(p)) /\ fetch_cycle(tick(p)) /\ tick(p).cycle % 8 = 0
    /\ increment_x_asserts(render_copy_y(tick(p)))

\* a clock that starts and stops VBlank one dot late
clock_vblank_dot2(p) ==
    IF p.cycle = 2 /\ p.scanline = PRERENDER_SCANLINE
    THEN [stop_vblank(p) EXCEPT !.status = ClearBit(ClearBit(@, 64), 32)]
    ELSE IF p.cycle = 2 /\ p.scanline = VBLANK_SCANLINE THEN start_vblank(p)
    ELSE p

\* Ppu::clock, after tick and render_scanline
clock_vblank(p) ==
    IF p.cycle = 1 /\ p.scanline = PRERENDER_SCANLINE
    THEN [stop_vblank(p) EXCEPT !.status = ClearBit(ClearBit(@, 64), 32)]
    ELSE IF p.cycle = 1 /\ p.scanline = VBLANK_SCANLINE THEN start_vblank(p)
    ELSE p

\* Ppu::clock
Ppu_clock(p) == clock_vblank(render_scanline(tick(p)))

(***************************************************************************)
(* Cartridges.  A cartridge is one 32 KiB PRG-ROM bank on an AxROM board    *)
(* with CHR-RAM.  Its program is a fixed prologue, a sled that repeats one  *)
(* instruction, and then a free region whose instructions are taken from    *)
(* the cartridge's menu the first time the CPU fetches them; the two        *)
(* interrupt handlers are fixed.  Everything else in the bank is zero.      *)
(* Instructions are written as their bytes.                                 *)
(***************************************************************************)
RECURSIVE Flat(_)
Flat(ss) == IF ss = <<>> THEN <<>> ELSE Head(ss) \o Flat(Tail(ss))

MkCart(pre, sled_ins, sled_n, menu, nmi_h, irq_h) ==
    [origin |-> 32768, nmi_at |-> 61440, irq_at |-> 63488,
     pre |-> Flat(pre), sled_ins |-> sled_ins, sled_n |-> sled_n,
     menu |-> menu, nmi_h |-> Flat(nmi_h), irq_h |-> Flat(irq_h)]

sled_start(c) == c.origin + Len(c.pre)
free_start(c) == sled_start(c) + c.sled_n * Len(c.sled_ins)

\* the byte of the bank at CPU address a, given the bytes of the free region
\* fixed so far (prg)
RomByte(c, prg, a) ==
    IF a \in DOMAIN prg THEN prg[a]
    ELSE IF a >= c.origin /\ a < sled_start(c) THEN c.pre[a - c.origin + 1]
    ELSE IF a >= sled_start(c) /\ a < free_start(c)
         THEN c.sled_ins[((a - sled_start(c)) % Len(c.sled_ins)) + 1]
    ELSE IF a >= c.nmi_at /\ a < c.nmi_at + Len(c.nmi_h) THEN c.nmi_h[a - c.nmi_at + 1]
    ELSE IF a >= c.irq_at /\ a < c.irq_at + Len(c.irq_h) THEN c.irq_h[a - c.irq_at + 1]
    ELSE IF a = NMI_ADDR THEN Lo(c.nmi_at)
    ELSE IF a = NMI_ADDR + 1 THEN Hi(c.nmi_at)
    ELSE IF a = RESET_ADDR THEN Lo(c.origin)
    ELSE IF a = RESET_ADDR + 1 THEN Hi(c.origin)
    ELSE IF a = IRQ_ADDR THEN Lo(c.irq_at)
    ELSE IF a = IRQ_ADDR + 1 THEN Hi(c.irq_at)
    ELSE 0

\* an address of the free region whose instruction has not been fetched yet
Unfetched(c, prg, a) == a >= free_start(c) /\ a < c.nmi_at /\ a \notin DOMAIN prg

\* prg with the bytes of instruction ins placed at address a
RECURSIVE Place(_, _, _)
Place(prg, a, ins) ==
    IF ins = <<>> THEN prg ELSE Place(MemSet(prg, a, Head(ins)), a + 1, Tail(ins))

\* instructions of the programs
LDA_IMM(v) == <<169, v>>
LDX_IMM(v) == <<162, v>>
LDA_ABS(a) == <<173, Lo(a), Hi(a)>>
STA_ABS(a) == <<141, Lo(a), Hi(a)>>
STX_ABS(a) == <<142, Lo(a), Hi(a)>>
STA_ABX(a) == <<157, Lo(a), Hi(a)>>
INC_ABS(a) == <<238, Lo(a), Hi(a)>>
DEC_ABS(a) == <<206, Lo(a), Hi(a)>>
ISB_ABS(a) == <<239, Lo(a), Hi(a)>>
DCP_ABS(a) == <<207, Lo(a), Hi(a)>>
INC_ABX(a) == <<254, Lo(a), Hi(a)>>
INC_ZP0(a) == <<230, a>>
ASL_ABS(a) == <<14, Lo(a), Hi(a)>>
SLO_ABS(a) == <<15, Lo(a), Hi(a)>>
ROL_ABS(a) == <<46, Lo(a), Hi(a)>>
RLA_ABS(a) == <<47, Lo(a), Hi(a)>>
LSR_ABS(a) == <<78, Lo(a), Hi(a)>>
SRE_ABS(a) == <<79, Lo(a), Hi(a)>>
ROR_ABS(a) == <<110, Lo(a), Hi(a)>>
RRA_ABS(a) == <<111, Lo(a), Hi(a)>>
BRK == <<0>>
PHP == <<8>>
PLP == <<40>>
RTI == <<64>>
CLI == <<88>>
SEI == <<120>>
NOP == <<234>>
XXX == <<2>>

\* calls of clock_frame in one run
MaxFrameCalls == 1

\* window and pause events delivered to the front end in one run
MaxUiEvents == 4

\* sprite DMAs in the sled of the cartridge of the frame loops: 60 of them
\* outlast one frame
FrameSled == 60 * (MaxFrameCalls + 1)

\* the cartridges
CartNames == {"nmi", "brk", "dma", "rmw", "irq", "masked", "pal", "oam", "bad",
              "shift", "dmc", "bank"}

\* the cartridge the frame loops run: sprite DMA after sprite DMA
FrameCarts == {"frame"}

\* the cartridge that writes the serial port of an MMC1 board
Mmc1Carts == {"mmc1"}

Carts ==
    [name \in CartNames \cup FrameCarts \cup Mmc1Carts |->
       CASE name = "nmi" ->
              MkCart(<<>>, NOP, 0,
                     {LDA_IMM(128), LDA_IMM(0), STA_ABS(8192), LDA_ABS(8194), PHP, NOP},
                     <<STA_ABS(8192), RTI>>, <<RTI>>)
         [] name = "brk" ->
              MkCart(<<>>, NOP, 0,
                     {BRK, PHP, PLP, CLI, LDA_IMM(255), NOP},
                     <<RTI>>, <<RTI>>)
         [] name = "dma" ->
              MkCart(<<LDA_IMM(2)>>, NOP, 0,
                     {STA_ABS(16404), STA_ABS(8195), NOP},
                     <<RTI>>, <<RTI>>)
         [] name = "rmw" ->
              MkCart(<<LDX_IMM(1)>>, NOP, 0,
                     {INC_ABS(8199), ISB_ABS(16405), DCP_ABS(8194), LDA_ABS(8199),
                      INC_ZP0(16), STA_ABX(8197)},
                     <<RTI>>, <<RTI>>)
         [] name = "irq" ->
              MkCart(<<CLI, LDA_IMM(0), STA_ABS(16407), LDX_IMM(2), LDA_IMM(128)>>,
                     INC_ABX(0), 4200,
                     {STA_ABS(8192), STX_ABS(16404), NOP},
                     <<RTI>>, <<RTI>>)
         [] name = "masked" ->
              MkCart(<<LDA_IMM(0), STA_ABS(16407)>>,
                     INC_ABX(0), 4262,
                     {CLI, LDA_ABS(16405), NOP},
                     <<RTI>>, <<RTI>>)
         [] name = "pal" ->
              MkCart(<<LDA_IMM(63), STA_ABS(8198), LDA_IMM(0), STA_ABS(8198),
                       LDA_IMM(21), STA_ABS(8199),
                       LDA_IMM(63), STA_ABS(8198), LDA_IMM(0), STA_ABS(8198)>>,
                     NOP, 0,
                     {LDA_ABS(8199), NOP},
                     <<RTI>>, <<RTI>>)
         [] name = "oam" ->
              MkCart(<<LDX_IMM(5), STX_ABS(8195)>>, NOP, 0,
                     {LDA_IMM(240), LDA_IMM(255), STA_ABS(16404), INC_ZP0(16)},
                     <<STA_ABS(8192), RTI>>, <<RTI>>)
         [] name = "bad" ->
              MkCart(<<>>, NOP, 0,
                     {XXX, LDA_IMM(1), NOP},
                     <<RTI>>, <<RTI>>)
         [] name = "shift" ->
              MkCart(<<LDA_IMM(195), STA_ABS(16)>>, NOP, 0,
                     {ASL_ABS(16), LSR_ABS(16), ROL_ABS(16), ROR_ABS(16),
                      SLO_ABS(16), SRE_ABS(16), RLA_ABS(16), RRA_ABS(16)},
                     <<RTI>>, <<RTI>>)
         [] name = "dmc" ->
              MkCart(<<LDA_IMM(15), STA_ABS(16400), LDA_IMM(0), STA_ABS(16403),
                       LDA_IMM(16)>>, NOP, 0,
                     {STA_ABS(16405), LDA_ABS(16405), NOP},
                     <<RTI>>, <<RTI>>)
         [] name = "bank" ->
              MkCart(<<LDA_IMM(1)>>, NOP, 0,
                     {STA_ABS(32768), LDA_IMM(0), LDA_IMM(6), NOP},
                     <<RTI>>, <<RTI>>)
         [] name = "frame" ->
              MkCart(<<LDA_IMM(2)>>, STA_ABS(16404), FrameSled,
                     {NOP},
                     <<RTI>>, <<RTI>>)
         [] name = "mmc1" ->
              MkCart(<<LDA_IMM(1)>>, NOP, 0,
                     {STA_ABS(32768), INC_ABS(32769), ASL_ABS(57344), NOP},
                     <<RTI>>, <<RTI>>)]

(***************************************************************************)
(* The memory map.  mm is the record of everything behind the CPU bus:      *)
(* ram, ppu, apu, input, mapper, the bus's open-bus latch, and data, the    *)
(* byte returned by the last read.                                          *)
(***************************************************************************)

\* Axrom::peek (one PRG bank; the CHR bank is RAM)
Axrom_peek(mp, addr) ==
    IF addr <= 8191 THEN MemGet(mp.chr, addr)
    ELSE IF addr >= 32768 THEN RomByte(Carts[mp.cart], mp.prg, addr)
    ELSE mp.open_bus

\* Axrom::read
Axrom_latch(mm, val) == [mm EXCEPT !.mapper.open_bus = val, !.data = val]

Axrom_read(mm, addr) == Axrom_latch(mm, Axrom_peek(mm.mapper, addr))

\* Axrom::write, on the mapper with its open bus already latched
Axrom_store(mp, addr, val) ==
    IF addr <= 8191
    THEN IF mp.has_chr_ram THEN [mp EXCEPT !.chr = MemSet(@, addr, val)] ELSE mp
    ELSE IF addr >= 32768
    THEN [mp EXCEPT !.prg_rom_bank = IF val % 8 >= mp.prg_rom_banks
                                     THEN val % 4 ELSE val % 8,
                    !.mirroring = IF HasBit(val, 16) THEN "SingleScreenB"
                                  ELSE "SingleScreenA"]
    ELSE mp

\* Axrom::write
Axrom_write(mm, addr, val) ==
    [mm EXCEPT !.mapper = Axrom_store([@ EXCEPT !.open_bus = val], addr, val)]

\* Vram::nametable_mirror_addr
nametable_mirror_addr(mirroring, addr) ==
    LET table_size == 1024
        mirror_lookup ==
            CASE mirroring = "Horizontal" -> <<0, 0, 1, 1>>
              [] mirroring = "Vertical" -> <<0, 1, 0, 1>>
              [] mirroring = "SingleScreenA" -> <<0, 0, 0, 0>>
              [] mirroring = "SingleScreenB" -> <<1, 1, 1, 1>>
              [] mirroring = "FourScreen" -> <<1, 2, 3, 4>>
        a == (addr - NAMETABLE_START) % (NAMETABLE_SIZE * 2)
        table == a \div table_size
        offset == a % table_size
    IN NAMETABLE_START + mirror_lookup[table + 1] * table_size + offset

\* Vram::peek, for the 14-bit addresses PpuRegs::read_addr yields
Vram_peek(mm, addr) ==
    IF addr <= 8191 THEN Axrom_peek(mm.mapper, addr)
    ELSE IF addr <= 16127
    THEN MemGet(mm.ppu.nametable,
                nametable_mirror_addr(mm.mapper.mirroring, addr) % NAMETABLE_SIZE)
    ELSE MemGet(mm.ppu.palette, addr % PALETTE_SIZE)

\* Vram::read
Vram_read(mm, addr) ==
    IF addr <= 8191 THEN Axrom_read(mm, addr) ELSE [mm EXCEPT !.data = Vram_peek(mm, addr)]

\* Vram::write
Vram_write(mm, addr, val) ==
    IF addr <= 8191 THEN Axrom_write(mm, addr, val)
    ELSE IF addr <= 16127
    THEN [mm EXCEPT !.ppu.nametable =
             MemSet(@, nametable_mirror_addr(mm.mapper.mirroring, addr) % NAMETABLE_SIZE, val)]
    ELSE [mm EXCEPT !.ppu.palette = MemSet(@, addr % PALETTE_SIZE, val)]

\* Ppu::read_ppudata below the palette: the buffered byte is returned and
\* the byte read (m1.data) is buffered
read_buffered(m1) == [m1 EXCEPT !.ppu.buffer = m1.data, !.data = m1.ppu.buffer]

\* Ppu::read_ppudata in the palette: val is returned and a second read of
\* the address (m3.data) is buffered
read_palette_fill(m3, val) == [m3 EXCEPT !.ppu.buffer = m3.data, !.data = val]

read_palette(m1, addr) == read_palette_fill(Vram_read(m1, addr), m1.data)

read_ppudata_at(m1, addr) ==
    IF addr <= 16127 THEN read_buffered(m1) ELSE read_palette(m1, addr)

\* Ppu::read_ppudata
read_ppudata(mm) ==
    [read_ppudata_at(Vram_read(mm, read_addr(mm.ppu)), read_addr(mm.ppu))
        EXCEPT !.ppu = increment_v(@)]

\* Ppu::peek_ppudata
peek_ppudata(mm) ==
    LET addr == read_addr(mm.ppu) IN
    IF addr <= 16127 THEN mm.ppu.buffer ELSE Vram_peek(mm, addr)

\* Ppu::write_ppudata
write_ppudata(mm, val) ==
    [Vram_write(mm, read_addr(mm.ppu), val) EXCEPT !.ppu = increment_v(@)]

\* a write of OAMDATA that leaves OAMADDR where it is
write_oamdata_keeps_addr(p, val) == [p EXCEPT !.oam = MemSet(@, p.oamaddr, val)]

\* Ppu::write_oamdata
write_oamdata(p, val) ==
    [p EXCEPT !.oam = MemSet(@, p.oamaddr, val), !.oamaddr = Byte(@ + 1)]

\* <Ppu as Memory>::read, the match on the register
Ppu_read_reg(mm, addr) ==
    CASE addr = 8194 -> [mm EXCEPT !.ppu = read_status(@), !.data = peek_status(mm.ppu)]
      [] addr = 8196 -> [mm EXCEPT !.data = MemGet(mm.ppu.oam, mm.ppu.oamaddr)]
      [] addr = 8199 -> read_ppudata(mm)
      [] OTHER -> [mm EXCEPT !.data = mm.ppu.open_bus]

\* <Ppu as Memory>::read, the byte read goes to the PPU's open bus
Ppu_latch(mm) == [mm EXCEPT !.ppu.open_bus = mm.data]

\* <Ppu as Memory>::read, for addr in $2000..$2007
Ppu_read(mm, addr) == Ppu_latch(Ppu_read_reg(mm, addr))

\* <Ppu as Memory>::peek
Ppu_peek(mm, addr) ==
    CASE addr = 8194 -> peek_status(mm.ppu)
      [] addr = 8196 -> MemGet(mm.ppu.oam, mm.ppu.oamaddr)
      [] addr = 8199 -> peek_ppudata(mm)
      [] OTHER -> mm.ppu.open_bus

\* <Ppu as Memory>::write, the match on the register
Ppu_write_reg(mm, addr, val) ==
    CASE addr = 8192 -> [mm EXCEPT !.ppu = write_ppuctrl(@, val)]
      [] addr = 8193 -> [mm EXCEPT !.ppu = write_ppumask(@, val)]
      [] addr = 8194 -> mm
      [] addr = 8195 -> [mm EXCEPT !.ppu.oamaddr = val]
      [] addr = 8196 -> [mm EXCEPT !.ppu = write_oamdata(@, val)]
      [] addr = 8197 -> [mm EXCEPT !.ppu = write_scroll(@, val)]
      [] addr = 8198 -> [mm EXCEPT !.ppu = write_addr(@, val)]
      [] addr = 8199 -> write_ppudata(mm, val)

\* <Ppu as Memory>::write: the byte goes to the PPU's open bus first
Ppu_write(mm, addr, val) == Ppu_write_reg([mm EXCEPT !.ppu.open_bus = val], addr, val)

(***************************************************************************)
(* APU: the frame counter and the status register.  The five channels feed  *)
(* only the sample buffer and the length bits of $4015; they are silent     *)
(* here (no program of the model starts a channel).                         *)
(***************************************************************************)

\* Apu::next_frame_counter
next_frame_counter(a) ==
    IF a.mode = "Step4"
    THEN <<7457, 7456, 7458, 7457, 1, 1>>[a.step]
    ELSE <<7457, 7456, 7458, 7457, 7452, 1>>[a.step]

\* Apu::clock_quarter_frame and Apu::clock_half_frame: the channels they
\* clock are not carried; the calls are kept, in order, in events
clock_quarter_frame(a) == [a EXCEPT !.events = Append(@, "q")]

clock_half_frame(a) == [a EXCEPT !.events = Append(@, "h")]

\* a sequencer that issues its half-frame clocks on steps 1 and 3
frame_clocks_odd_steps(a) ==
    CASE a.step \in {2, 5} -> clock_quarter_frame(a)
      [] a.step \in {1, 3} -> clock_half_frame(clock_quarter_frame(a))
      [] OTHER -> a

\* Apu::clock_frame_counter when the counter has run out: the match on step
frame_clocks(a) ==
    CASE a.step \in {1, 3} -> clock_quarter_frame(a)
      [] a.step \in {2, 5} -> clock_half_frame(clock_quarter_frame(a))
      [] OTHER -> a

\* a frame IRQ raised in either mode
frame_irq_any_mode(a) ==
    IF a.irq_enabled /\ a.step >= 4 THEN [a EXCEPT !.irq_pending = TRUE] ELSE a

\* Apu::clock_frame_counter when the counter has run out: the frame IRQ
frame_irq(a) ==
    IF a.irq_enabled /\ a.mode = "Step4" /\ a.step >= 4
    THEN [a EXCEPT !.irq_pending = TRUE] ELSE a

frame_step(a) == [a EXCEPT !.step = IF @ + 1 > 6 THEN 1 ELSE @ + 1]

frame_reload(a) == [a EXCEPT !.counter = next_frame_counter(a)]

\* Apu::clock_frame_counter
clock_frame_counter(a) ==
    IF a.counter > 0 THEN [a EXCEPT !.counter = @ - 1]
    ELSE frame_reload(frame_step(frame_irq(frame_clocks(a))))

\* Apu::clock after its channels are clocked: the frame counter and the
\* cycle count
\* (self.clock_rate / SAMPLE_RATE) as u64, at speed 1: CPU_CLOCK_RATE is
\* MASTER_CLOCK_RATE / 12.0
sample_period == MASTER_CLOCK_RATE \div (12 * SAMPLE_RATE)

\* a sample every APU cycle, instead of one in sample_period
push_sample_always(a) == [a EXCEPT !.samples = @ + 1]

\* Apu::clock: self.samples.push(sample) on the cycles that are multiples of
\* the period (samples counts the pushes)
push_sample(a) == IF a.cycle % sample_period = 0 THEN [a EXCEPT !.samples = @ + 1] ELSE a

Apu_clock(a) == [push_sample(clock_frame_counter(a)) EXCEPT !.cycle = @ + 1]

\* Apu::peek_status
Apu_peek_status(a) ==
    (IF a.dmc.length > 0 THEN 16 ELSE 0) + (IF a.irq_pending THEN 64 ELSE 0)
    + (IF a.dmc_irq_pending THEN 128 ELSE 0)

\* Apu::read_status
Apu_read_status(a) == [a EXCEPT !.irq_pending = FALSE]

\* Apu::write_status
dmc_enable(d, val) ==
    IF HasBit(val, 16)
    THEN IF d.length = 0 THEN [d EXCEPT !.length = d.length_load, !.addr = d.addr_load]
         ELSE d
    ELSE [d EXCEPT !.length = 0]

Apu_write_status(a, val) ==
    [a EXCEPT !.dmc = dmc_enable(@, val), !.dmc_irq_pending = FALSE]

\* DMC::NTSC_FREQ_TABLE
NTSC_FREQ_TABLE ==
    <<428, 380, 340, 320, 286, 254, 226, 214, 190, 160, 142, 128, 106, 84, 72, 54>>

\* DMC::write_timer
write_timer(a, val) ==
    [a EXCEPT !.dmc.irq_enabled = HasBit(val, 128),
              !.dmc.loops = HasBit(val, 64),
              !.dmc.freq_timer = NTSC_FREQ_TABLE[(val % 16) + 1],
              !.dmc_irq_pending = IF HasBit(val, 128) THEN @ ELSE FALSE]

\* DMC::write_addr_load
write_addr_load(a, val) == [a EXCEPT !.dmc.addr_load = 49152 + val * 64]

\* DMC::write_length
write_length(a, val) == [a EXCEPT !.dmc.length_load = ((val * 16) % 256) + 1]

\* Apu::write_frame_counter, after the mode and step are set
frame_counter_delay(a) ==
    [a EXCEPT !.counter = next_frame_counter(a) + (IF a.cycle % 2 = 0 THEN 3 ELSE 4)]

frame_irq_inhibit(a, val) ==
    IF HasBit(val, 64)
    THEN [a EXCEPT !.irq_enabled = FALSE, !.irq_pending = FALSE]
    ELSE [a EXCEPT !.irq_enabled = TRUE]

\* Apu::write_frame_counter: 5-step mode clocks at once
frame_counter_step5(a) ==
    IF a.mode = "Step5" THEN clock_half_frame(clock_quarter_frame(a)) ELSE a

\* Apu::write_frame_counter
write_frame_counter(a, val) ==
    frame_irq_inhibit(
        frame_counter_step5(
            frame_counter_delay([a EXCEPT !.mode = IF HasBit(val, 128) THEN "Step5"
                                                   ELSE "Step4",
                                          !.step = 1])), val)

\* <Apu as Memory>::read
Apu_read(mm, addr) ==
    IF addr = 16405
    THEN [mm EXCEPT !.apu = [Apu_read_status(@) EXCEPT
                                !.open_bus = Apu_peek_status(mm.apu)],
                    !.data = Apu_peek_status(mm.apu)]
    ELSE [mm EXCEPT !.data = mm.apu.open_bus]

\* <Apu as Memory>::peek
Apu_peek(mm, addr) ==
    IF addr = 16405 THEN Apu_peek_status(mm.apu) ELSE mm.apu.open_bus

\* <Apu as Memory>::write, the match on the register
Apu_write_reg(a, addr, val) ==
    CASE addr = 16400 -> write_timer(a, val)
      [] addr = 16402 -> write_addr_load(a, val)
      [] addr = 16403 -> write_length(a, val)
      [] addr = 16405 -> Apu_write_status(a, val)
      [] addr = 16407 -> write_frame_counter(a, val)
      [] OTHER -> a

\* <Apu as Memory>::write: the byte goes to the APU's open bus first
Apu_write(mm, addr, val) ==
    [mm EXCEPT !.apu = Apu_write_reg([@ EXCEPT !.open_bus = val], addr, val)]

(***************************************************************************)
(* Input: the two joypads of a deck without Four Score or Zapper.           *)
(***************************************************************************)

\* a joypad that shifts its buttons out from Right down to A
Joypad_peek_msb(j) ==
    IF j.index > 7 THEN 1 ELSE (j.buttons \div (2 ^ (7 - j.index))) % 2

\* Joypad::peek
Joypad_peek(j) ==
    IF j.index > 7 THEN 1 ELSE (j.buttons \div (2 ^ j.index)) % 2

\* Joypad::read
Joypad_read(j) ==
    IF ~j.strobe /\ j.index <= 7 THEN [j EXCEPT !.index = @ + 1] ELSE j

\* Joypad::write
Joypad_write(j, val) ==
    LET strobe == val % 2 = 1 IN
    [j EXCEPT !.strobe = strobe, !.index = IF j.strobe /\ ~strobe THEN 0 ELSE @]

\* Input::peek with Input::peek_slots; slot is 1 or 2
Input_peek(mm, slot) ==
    LET j == mm.input[slot] IN
    BitOr(IF j.index < 8 THEN Joypad_peek(j) ELSE 1, 64)

\* Input::read with Input::read_slots
Input_read(mm, slot) ==
    LET j == mm.input[slot] IN
    [mm EXCEPT !.input[slot] = IF j.index < 8 THEN Joypad_read(j) ELSE j,
               !.data = Input_peek(mm, slot)]

\* Input::write
Input_write(mm, val) ==
    [mm EXCEPT !.input = [s \in DOMAIN mm.input |-> Joypad_write(mm.input[s], val)]]

(***************************************************************************)
(* The CPU bus.                                                            *)
(***************************************************************************)

\* MemoryMap::read, the decode on the block of the address
MemoryMap_read_dev(mm, addr) ==
    IF addr < 8192 THEN [mm EXCEPT !.data = MemGet(mm.ram, addr % 2048)]
    ELSE IF addr < 16384 THEN Ppu_read(mm, 8192 + (addr % 8))
    ELSE IF addr = 16406 THEN Input_read(mm, 1)
    ELSE IF addr = 16407 THEN Input_read(mm, 2)
    ELSE IF addr <= 16405 THEN Apu_read(mm, addr)
    ELSE IF addr < 16416 THEN [mm EXCEPT !.data = mm.open_bus]
    ELSE Axrom_read(mm, addr)

\* MemoryMap::read, the byte read goes to the bus's open-bus latch
MemoryMap_latch(mm) == [mm EXCEPT !.open_bus = mm.data]

\* MemoryMap::read
MemoryMap_read(mm, addr) == MemoryMap_latch(MemoryMap_read_dev(mm, addr))

\* MemoryMap::peek
MemoryMap_peek(mm, addr) ==
    IF addr < 8192 THEN MemGet(mm.ram, addr % 2048)
    ELSE IF addr < 16384 THEN Ppu_peek(mm, 8192 + (addr % 8))
    ELSE IF addr = 16406 THEN Input_peek(mm, 1)
    ELSE IF addr = 16407 THEN Input_peek(mm, 2)
    ELSE IF addr <= 16405 THEN Apu_peek(mm, addr)
    ELSE IF addr < 16416 THEN mm.open_bus
    ELSE Axrom_peek(mm.mapper, addr)

\* MemoryMap::write
MemoryMap_write(mm, addr, val) ==
    IF addr < 8192 THEN [mm EXCEPT !.ram = MemSet(@, addr % 2048, val)]
    ELSE IF addr < 16384 THEN Ppu_write(mm, 8192 + (addr % 8), val)
    ELSE IF addr = 16406 THEN Input_write(mm, val)
    ELSE IF addr <= 16407 THEN Apu_write(mm, addr, val)
    ELSE IF addr < 16416 THEN mm
    ELSE Axrom_write(mm, addr, val)

(***************************************************************************)
(* The machine m = [cpu, mem, io, ghost] that one call of Cpu::clock        *)
(* threads through its bus accesses.  io holds what the call reports: the   *)
(* bus accesses in order, the return values of the helpers, the interrupt   *)
(* serviced.  ghost holds observations the properties are stated on.  An    *)
(* operator that continues from an intermediate machine takes it as its     *)
(* argument, so the steps of a function read in the order f3(f2(f1(m))).    *)
(***************************************************************************)

\* the NMI line of the PPU: CTRL.NMI-enable AND STATUS.V
Level(p) == nmi_enabled(p) /\ vblank_started(p)

\* observations of one bus access that took the PPU from p0 to p1
Observe(g, kind, addr, val, p0, p1) ==
    [g EXCEPT !.edges = IF ~Level(p0) /\ Level(p1) THEN @ + 1 ELSE @,
              !.ctrl_edge = @ \/ (~Level(p0) /\ Level(p1) /\ kind = "w"
                                  /\ addr >= 8192 /\ addr < 16384 /\ addr % 8 = 0),
              !.frame_irq = IF (kind = "r" /\ addr = 16405)
                               \/ (kind = "w" /\ addr = 16407 /\ HasBit(val, 64))
                            THEN FALSE ELSE @]

\* the machine after a bus access that left the memory map as mm1
accessed(m, kind, addr, val, mm1) ==
    [m EXCEPT !.mem = mm1,
              !.io.bus = Append(@, <<kind, addr, val>>),
              !.ghost = Observe(@, kind, addr, val, m.mem.ppu, mm1.ppu)]

read_done(m, addr, mm1) == accessed(m, "r", addr, mm1.data, mm1)

\* <Cpu as Memory>::read; the byte is returned in mem.data
read(m, addr) == read_done(m, addr, MemoryMap_read(m.mem, addr))

\* the else branch of <Cpu as Memory>::write
bus_write(m, addr, val) == accessed(m, "w", addr, val, MemoryMap_write(m.mem, addr, val))

\* the body of the copy loop of Cpu::write_oamdma, after its read
oamdma_store(m) == bus_write(m, 8196, m.mem.data)

\* the copy loop of Cpu::write_oamdma: n bytes from addr on, the first half
\* and then the second (addr never passes $FFFF before the last byte)
RECURSIVE oamdma_copy(_, _, _)
RECURSIVE oamdma_rest(_, _, _)
oamdma_copy(m, addr, n) ==
    IF n = 1 THEN oamdma_store(read(m, addr))
    ELSE oamdma_rest(oamdma_copy(m, addr, n \div 2), addr + (n \div 2), n - (n \div 2))

oamdma_rest(m, addr, n) == IF m.cpu.stall >= 0 THEN oamdma_copy(m, addr, n) ELSE m

\* a DMA that holds the CPU for 513 cycles whatever the cycle
oamdma_stall_513(m) == [m EXCEPT !.cpu.stall = @ + 513]

\* Cpu::write_oamdma, after the copy
oamdma_stall(m) ==
    [m EXCEPT !.cpu.stall = @ + 513 + (IF m.cpu.cycle_count % 2 = 1 THEN 1 ELSE 0)]

\* Cpu::write_oamdma
write_oamdma(m, page) == oamdma_stall(oamdma_copy(m, page * 256, 256))

\* <Cpu as Memory>::write
write(m, addr, val) ==
    IF addr = 16404 THEN write_oamdma(m, val) ELSE bus_write(m, addr, val)

\* Cpu::readw; the word is returned in io.word
readw_word(m, lo) == [m EXCEPT !.io.word = MkWord(m.mem.data, lo)]

readw_hi(m, addr) == readw_word(read(m, addr), m.mem.data)

readw(m, addr) == readw_hi(read(m, addr), Word(addr + 1))

\* Cpu::set_flag
set_flag(m, flag, on) == [m EXCEPT !.cpu.status = PutBit(@, flag, on)]

\* Cpu::set_flags_zn
set_flags_zn(m, val) == set_flag(set_flag(m, Z, val = 0), N, HasBit(val, 128))

\* Cpu::push_stackb
push_stackb(m, val) ==
    [write(m, SP_BASE + m.cpu.sp, val) EXCEPT !.cpu.sp = (@ + 255) % 256]

\* Cpu::pop_stackb; the byte is returned in mem.data
pop_read(m) == read(m, SP_BASE + m.cpu.sp)

pop_stackb(m) == pop_read([m EXCEPT !.cpu.sp = (@ + 1) % 256])

\* Cpu::push_stackw
push_stackw(m, val) == push_stackb(push_stackb(m, Hi(val)), Lo(val))

\* Cpu::pop_stackw; the word is returned in io.word
pop_hi(m) == readw_word(pop_stackb(m), m.mem.data)

pop_stackw(m) == pop_hi(pop_stackb(m))

(***************************************************************************)
(* The instruction table: the rows of INSTRUCTIONS the programs use.        *)
(***************************************************************************)
InstrRows ==
    { <<0, "IMM", "BRK", 7>>,   <<2, "IMP", "XXX", 2>>,   <<8, "IMP", "PHP", 3>>,
      <<14, "ABS", "ASL", 6>>,  <<15, "ABS", "SLO", 6>>,  <<46, "ABS", "ROL", 6>>,
      <<47, "ABS", "RLA", 6>>,  <<78, "ABS", "LSR", 6>>,  <<79, "ABS", "SRE", 6>>,
      <<110, "ABS", "ROR", 6>>, <<111, "ABS", "RRA", 6>>,   <<40, "IMP", "PLP", 4>>,
      <<64, "IMP", "RTI", 6>>,  <<88, "IMP", "CLI", 2>>,  <<120, "IMP", "SEI", 2>>,
      <<141, "ABS", "STA", 4>>, <<142, "ABS", "STX", 4>>, <<157, "ABX", "STA", 5>>,
      <<162, "IMM", "LDX", 2>>, <<169, "IMM", "LDA", 2>>, <<173, "ABS", "LDA", 4>>,
      <<206, "ABS", "DEC", 6>>, <<207, "ABS", "DCP", 6>>, <<230, "ZP0", "INC", 5>>,
      <<234, "IMP", "NOP", 2>>, <<238, "ABS", "INC", 6>>, <<239, "ABS", "ISB", 6>>,
      <<254, "ABX", "INC", 7>> }

INSTRUCTIONS ==
    [o \in {r[1] : r \in InstrRows} |->
        LET r == CHOOSE r \in InstrRows : r[1] = o IN
        [mode |-> r[2], op |-> r[3], cycles |-> r[4]]]

\* the row of an opcode; the rows left out here are not executed by any program
Instr(opcode) ==
    IF opcode \in DOMAIN INSTRUCTIONS THEN INSTRUCTIONS[opcode]
    ELSE [mode |-> "IMP", op |-> "XXX", cycles |-> 0]

\* Cpu::pages_differ
pages_differ(a, b) == Hi(a) # Hi(b)

(***************************************************************************)
(* Addressing modes.  Each returns its extra-cycle flag in io.mode_cycle.   *)
(***************************************************************************)

\* Cpu::imp
imp_done(m) == [m EXCEPT !.cpu.fetched_data = m.cpu.acc, !.io.mode_cycle = 0]

imp(m) == imp_done(read(m, m.cpu.pc))

\* Cpu::imm
imm_done(m) ==
    [m EXCEPT !.cpu.abs_addr = m.cpu.pc, !.cpu.pc = Word(@ + 1), !.io.mode_cycle = 0]

imm(m) == imm_done(read(m, m.cpu.pc))

\* Cpu::zp0
zp0_done(m) ==
    [m EXCEPT !.cpu.abs_addr = m.mem.data % 256, !.cpu.pc = Word(@ + 1),
              !.io.mode_cycle = 0]

zp0(m) == zp0_done(read(m, m.cpu.pc))

\* Cpu::abs
abs_set(m) == [m EXCEPT !.cpu.abs_addr = m.io.word]

abs_dummy(m) ==
    IF Instr(m.cpu.instr).op \in {"ASL", "LSR", "ROL", "ROR", "INC", "DEC",
                                  "SLO", "SRE", "RLA", "RRA", "ISB", "DCP"}
    THEN read(m, m.cpu.abs_addr) ELSE m

abs_done(m) == [m EXCEPT !.cpu.pc = Word(@ + 2), !.io.mode_cycle = 0]

abs(m) == abs_done(abs_dummy(abs_set(readw(m, m.cpu.pc))))

\* Cpu::abx; addr is io.word
abx_set(m) ==
    [m EXCEPT !.cpu.pc = Word(@ + 2), !.cpu.abs_addr = Word(m.io.word + m.cpu.x)]

abx_dummy(m) ==
    IF (m.io.word % 256) + m.cpu.x > 255
    THEN read(m, (m.io.word - (m.io.word % 256)) + (m.cpu.abs_addr % 256)) ELSE m

abx_done(m) ==
    [m EXCEPT !.io.mode_cycle = IF pages_differ(m.io.word, m.cpu.abs_addr) THEN 1 ELSE 0]

abx(m) == abx_done(abx_dummy(abx_set(readw(m, m.cpu.pc))))

\* Cpu::fetch_data
fetched(m) == [m EXCEPT !.cpu.fetched_data = m.mem.data]

fetch_data(m) ==
    IF Instr(m.cpu.instr).mode \notin {"IMP", "ACC"}
    THEN fetched(read(m, m.cpu.abs_addr))
    ELSE m

\* Cpu::write_fetched
write_fetched(m, val) ==
    IF Instr(m.cpu.instr).mode \in {"IMP", "ACC"}
    THEN [m EXCEPT !.cpu.acc = val]
    ELSE write(m, m.cpu.abs_addr, val)

(***************************************************************************)
(* Operations.  Each returns its extra-cycle flag in io.op_cycle.           *)
(***************************************************************************)
op_ret(m, n) == [m EXCEPT !.io.op_cycle = n]

\* Cpu::lda
lda_load(m) == set_flags_zn([m EXCEPT !.cpu.acc = m.cpu.fetched_data], m.cpu.fetched_data)

lda(m) == op_ret(lda_load(fetch_data(m)), 1)

\* Cpu::ldx
ldx_load(m) == set_flags_zn([m EXCEPT !.cpu.x = m.cpu.fetched_data], m.cpu.fetched_data)

ldx(m) == op_ret(ldx_load(fetch_data(m)), 1)

\* Cpu::sta
sta(m) == op_ret(write(m, m.cpu.abs_addr, m.cpu.acc), 0)

\* Cpu::stx
stx(m) == op_ret(write(m, m.cpu.abs_addr, m.cpu.x), 0)

\* Cpu::sbc, after fetch_data
sbc_sub(m) ==
    LET a == m.cpu.acc
        f == m.cpu.fetched_data
        borrow == IF HasBit(m.cpu.status, C) THEN 0 ELSE 1
        x1 == (a + 256 - f) % 256
        x2 == (x1 + 256 - borrow) % 256
    IN set_flags_zn(
           set_flag(
               set_flag([m EXCEPT !.cpu.acc = x2], C, ~(a < f \/ x1 < borrow)),
               V, HasBit(a, 128) # HasBit(f, 128) /\ HasBit(a, 128) # HasBit(x2, 128)),
           x2)

\* Cpu::sbc
sbc(m) == op_ret(sbc_sub(fetch_data(m)), 1)

\* Cpu::dec
dec_dummy(m) == write_fetched(m, m.cpu.fetched_data)

dec_write(m) ==
    set_flags_zn(write_fetched(m, (m.cpu.fetched_data + 255) % 256),
                 (m.cpu.fetched_data + 255) % 256)

dec(m) == op_ret(dec_write(dec_dummy(fetch_data(m))), 0)

\* Cpu::inc
inc_dummy(m) == write_fetched(m, m.cpu.fetched_data)

inc_write(m) ==
    write_fetched(set_flags_zn(m, (m.cpu.fetched_data + 1) % 256),
                  (m.cpu.fetched_data + 1) % 256)

inc(m) == op_ret(inc_write(inc_dummy(fetch_data(m))), 0)

\* Cpu::compare
compare(m, a, b) == set_flag(set_flags_zn(m, (a + 256 - b) % 256), C, a >= b)

\* Cpu::cmp
cmp_fetched(m) == compare(m, m.cpu.acc, m.cpu.fetched_data)

cmp(m) == op_ret(cmp_fetched(fetch_data(m)), 1)

\* Cpu::isb
isb(m) == op_ret(sbc(inc(m)), 0)

\* Cpu::dcp
dcp(m) == op_ret(cmp(dec(m)), 0)

\* Cpu::adc, after fetch_data
adc_add(m) ==
    LET a == m.cpu.acc
        f == m.cpu.fetched_data
        x1 == (f + a) % 256
        x2 == (x1 + (IF HasBit(m.cpu.status, C) THEN 1 ELSE 0)) % 256
    IN set_flags_zn(
           set_flag(
               set_flag([m EXCEPT !.cpu.acc = x2], C, f + a > 255 \/ x2 < x1),
               V, HasBit(a, 128) = HasBit(f, 128) /\ HasBit(a, 128) # HasBit(x2, 128)),
           x2)

\* Cpu::adc
adc(m) == op_ret(adc_add(fetch_data(m)), 1)

\* Cpu::and
and_acc(m) ==
    set_flags_zn([m EXCEPT !.cpu.acc = BitAnd(@, m.cpu.fetched_data)],
                 BitAnd(m.cpu.acc, m.cpu.fetched_data))

and(m) == op_ret(and_acc(fetch_data(m)), 1)

\* Cpu::eor
eor_acc(m) ==
    set_flags_zn([m EXCEPT !.cpu.acc = BitXor(@, m.cpu.fetched_data)],
                 BitXor(m.cpu.acc, m.cpu.fetched_data))

eor(m) == op_ret(eor_acc(fetch_data(m)), 1)

\* Cpu::ora
ora_acc(m) ==
    set_flags_zn([m EXCEPT !.cpu.acc = BitOr(@, m.cpu.fetched_data)],
                 BitOr(m.cpu.acc, m.cpu.fetched_data))

ora(m) == op_ret(ora_acc(fetch_data(m)), 1)

\* Cpu::asl
asl_dummy(m) == write_fetched(m, m.cpu.fetched_data)

asl_write(m) ==
    write_fetched(set_flags_zn(set_flag(m, C, HasBit(m.cpu.fetched_data, 128)),
                               (m.cpu.fetched_data * 2) % 256),
                  (m.cpu.fetched_data * 2) % 256)

\* an ASL that goes straight to the modified write
asl_single_write(m) == op_ret(asl_write(fetch_data(m)), 0)

asl(m) == op_ret(asl_write(asl_dummy(fetch_data(m))), 0)

\* Cpu::lsr
lsr_dummy(m) == write_fetched(m, m.cpu.fetched_data)

lsr_write(m) ==
    write_fetched(set_flags_zn(set_flag(m, C, HasBit(m.cpu.fetched_data, 1)),
                               m.cpu.fetched_data \div 2),
                  m.cpu.fetched_data \div 2)

lsr(m) == op_ret(lsr_write(lsr_dummy(fetch_data(m))), 0)

\* Cpu::rol
rol_dummy(m) == write_fetched(m, m.cpu.fetched_data)

rol_val(m) ==
    ((m.cpu.fetched_data * 2) % 256) + (IF HasBit(m.cpu.status, C) THEN 1 ELSE 0)

rol_write(m) ==
    write_fetched(set_flags_zn(set_flag(m, C, HasBit(m.cpu.fetched_data, 128)),
                               rol_val(m)),
                  rol_val(m))

rol(m) == op_ret(rol_write(rol_dummy(fetch_data(m))), 0)

\* Cpu::ror
ror_dummy(m) == write_fetched(m, m.cpu.fetched_data)

ror_val(m) ==
    (m.cpu.fetched_data \div 2) + (IF HasBit(m.cpu.status, C) THEN 128 ELSE 0)

ror_write(m) ==
    write_fetched(set_flags_zn(set_flag(m, C, HasBit(m.cpu.fetched_data, 1)),
                               ror_val(m)),
                  ror_val(m))

ror(m) == op_ret(ror_write(ror_dummy(fetch_data(m))), 0)

\* Cpu::slo
slo(m) == op_ret(ora(asl(m)), 0)

\* Cpu::rla
rla(m) == op_ret(and(rol(m)), 0)

\* Cpu::sre
sre(m) == op_ret(eor(lsr(m)), 0)

\* Cpu::rra
rra(m) == op_ret(adc(ror(m)), 0)

\* Cpu::cli
cli(m) == op_ret(set_flag(m, I, FALSE), 0)

\* Cpu::sei
sei(m) == op_ret(set_flag(m, I, TRUE), 0)

\* Cpu::php
php(m) ==
    op_ret(set_flag(set_flag(push_stackb(m, SetBit(SetBit(m.cpu.status, U), B)),
                             B, FALSE),
                    U, FALSE), 0)

\* Cpu::plp
plp_set(m) == [m EXCEPT !.cpu.status = ClearBit(SetBit(m.mem.data, U), B)]

plp(m) == op_ret(plp_set(pop_stackb(m)), 0)

\* self.pc = <the word just read>
set_pc(m) == [m EXCEPT !.cpu.pc = m.io.word]

\* Cpu::rti
rti_status(m) == [m EXCEPT !.cpu.status = ClearBit(ClearBit(m.mem.data, U), B)]

rti(m) == op_ret(set_pc(pop_stackw(rti_status(pop_stackb(m)))), 0)

\* Cpu::brk
brk_push(m) == push_stackw(m, Word(m.cpu.pc + 1))

\* a BRK that pushes the status byte the way an interrupt does, B clear
brk_b_clear(m) ==
    op_ret(set_pc(readw(push_stackb(brk_push(set_flag(m, I, TRUE)),
                                    ClearBit(SetBit(m.cpu.status, U), B)),
                        IRQ_ADDR)), 0)

brk(m) ==
    op_ret(set_pc(readw(php(set_flag(brk_push(set_flag(m, I, TRUE)), B, TRUE)),
                        IRQ_ADDR)), 0)

\* Cpu::nop
nop(m) == op_ret(m, 0)

\* Cpu::xxx panics
xxx(m) == op_ret([m EXCEPT !.io.panic = TRUE], 0)

(***************************************************************************)
(* Interrupts.                                                              *)
(***************************************************************************)

\* Cpu::irq
irq_status(m) == push_stackb(m, ClearBit(SetBit(m.cpu.status, U), B))

irq_done(m) == [set_flag(set_pc(m), I, TRUE) EXCEPT !.cpu.cycle_count = @ + 7]

irq(m) == irq_done(readw(irq_status(push_stackw(m, m.cpu.pc)), IRQ_ADDR))

\* an NMI entry that pushes the status byte without setting U
nmi_status_u_unset(m) == push_stackb(m, ClearBit(m.cpu.status, B))

\* Cpu::nmi
nmi_status(m) == push_stackb(m, ClearBit(SetBit(m.cpu.status, U), B))

nmi_done(m) == [set_flag(set_pc(m), I, TRUE) EXCEPT !.cpu.cycle_count = @ + 7]

nmi(m) == nmi_done(readw(nmi_status(push_stackw(m, m.cpu.pc)), NMI_ADDR))

\* Cpu::trigger_irq
trigger_irq(c) == IF HasBit(c.status, I) THEN c ELSE [c EXCEPT !.interrupt = "IRQ"]

\* Cpu::trigger_nmi
trigger_nmi(c) == [c EXCEPT !.interrupt = "NMI"]

(***************************************************************************)
(* Cpu::clock.                                                              *)
(***************************************************************************)

\* the match on addr_mode()
exec_mode(m, mode) ==
    CASE mode = "IMM" -> imm(m)
      [] mode = "ZP0" -> zp0(m)
      [] mode = "ABS" -> abs(m)
      [] mode = "ABX" -> abx(m)
      [] mode = "IMP" -> imp(m)

\* the match on op()
exec_op(m, op) ==
    CASE op = "BRK" -> brk(m)
      [] op = "CLI" -> cli(m)
      [] op = "DEC" -> dec(m)
      [] op = "INC" -> inc(m)
      [] op = "LDA" -> lda(m)
      [] op = "LDX" -> ldx(m)
      [] op = "NOP" -> nop(m)
      [] op = "PHP" -> php(m)
      [] op = "PLP" -> plp(m)
      [] op = "RTI" -> rti(m)
      [] op = "SEI" -> sei(m)
      [] op = "STA" -> sta(m)
      [] op = "STX" -> stx(m)
      [] op = "ISB" -> isb(m)
      [] op = "DCP" -> dcp(m)
      [] op = "ASL" -> asl(m)
      [] op = "LSR" -> lsr(m)
      [] op = "ROL" -> rol(m)
      [] op = "ROR" -> ror(m)
      [] op = "SLO" -> slo(m)
      [] op = "SRE" -> sre(m)
      [] op = "RLA" -> rla(m)
      [] op = "RRA" -> rra(m)
      [] op = "XXX" -> xxx(m)

\* the match on self.interrupt, and self.interrupt = Interrupt::None
clock_service(m) ==
    [(CASE m.cpu.interrupt = "IRQ" -> irq(m)
        [] m.cpu.interrupt = "NMI" -> nmi(m)
        [] OTHER -> m) EXCEPT !.cpu.interrupt = "None"]

\* let opcode = self.read(self.pc)
clock_fetch(m) == read(m, m.cpu.pc)

\* set_flag(U, true); pc += 1; self.instr = INSTRUCTIONS[opcode]
clock_decode(m) ==
    [set_flag(m, U, TRUE) EXCEPT !.cpu.pc = Word(@ + 1), !.cpu.instr = m.mem.data]

\* the addressing mode and then the operation
clock_exec(m) ==
    exec_op(exec_mode(m, Instr(m.cpu.instr).mode), Instr(m.cpu.instr).op)

\* step += 1; cycle_count += cycles + (mode_cycle & op_cycle)
clock_count(m) ==
    [m EXCEPT !.cpu.step = @ + 1,
              !.cpu.cycle_count = @ + Instr(m.cpu.instr).cycles
                                  + BitAnd(m.io.mode_cycle, m.io.op_cycle)]

\* self.cycle_count - start_cycle
clock_ret(m, start_cycle) == [m EXCEPT !.io.ret = m.cpu.cycle_count - start_cycle]

\* Cpu::clock; the cycles it returns are io.ret
Cpu_clock(m) ==
    IF m.cpu.stall > 0
    THEN [m EXCEPT !.cpu.stall = @ - 1, !.io.ret = 1]
    ELSE clock_ret(clock_count(clock_exec(clock_decode(clock_fetch(clock_service(m))))),
                   m.cpu.cycle_count)

(***************************************************************************)
(* The deck: Console::clock.                                                *)
(***************************************************************************)

\* a deck that clocks the PPU twice per CPU cycle
ppu_cycles_two(cpu_cycles) == 2 * cpu_cycles

\* let ppu_cycles = 3 * cpu_cycles
ppu_cycles(cpu_cycles) == 3 * cpu_cycles

\* the body of the PPU loop after ppu.clock() left the PPU as p1 (AxROM's
\* clock does nothing and its irq_pending is false)
ppu_lines(s, p1) ==
    [s EXCEPT !.mem.ppu = IF p1.nmi_pending THEN [p1 EXCEPT !.nmi_pending = FALSE] ELSE p1,
              !.cpu = IF p1.nmi_pending THEN trigger_nmi(@) ELSE @,
              !.ghost = [@ EXCEPT !.dots = @ + 1,
                                  !.edges = IF ~Level(s.mem.ppu) /\ Level(p1)
                                            THEN @ + 1 ELSE @,
                                  !.nmis = IF p1.nmi_pending THEN @ + 1 ELSE @,
                                  !.nmi_low = @ \/ (p1.nmi_pending /\ ~Level(p1)),
                                  !.nmi_owed = @ \/ p1.nmi_pending,
                                  !.trace = @ \o <<"ppu", "nmi_check", "irq_check">>]]

\* one iteration of the PPU loop
ppu_iter(s) == ppu_lines(s, Ppu_clock(s.mem.ppu))

\* for _ in 0..ppu_cycles
RECURSIVE ppu_loop(_, _)
ppu_loop(s, n) == IF n = 0 THEN s ELSE ppu_loop(ppu_iter(s), n - 1)

\* the body of the APU loop after apu.clock() left the APU as a1
apu_lines(s, a1) ==
    [s EXCEPT !.mem.apu = IF a1.irq_pending THEN [a1 EXCEPT !.irq_pending = FALSE] ELSE a1,
              !.cpu = IF a1.irq_pending THEN trigger_irq(@) ELSE @,
              !.ghost = [@ EXCEPT !.apu_clocks = @ + 1,
                                  !.frame_irq = @ \/ a1.irq_pending,
                                  !.irq_masked = IF a1.irq_pending
                                                 THEN HasBit(s.cpu.status, I) ELSE @,
                                  !.trace = @ \o <<"apu", "irq_check">>]]

\* DMC::clock: the frequency counter and the output unit (the output level
\* is not carried)
Dmc_bits(d) ==
    IF d.output_bits <= 1
    THEN [d EXCEPT !.output_bits = 8, !.sample_buffer_empty = TRUE]
    ELSE [d EXCEPT !.output_bits = @ - 1]

Dmc_timer(d) ==
    IF d.freq_counter > 0 THEN [d EXCEPT !.freq_counter = @ - 1]
    ELSE Dmc_bits([d EXCEPT !.freq_counter = d.freq_timer])

\* DMC::clock: the sample buffer is empty and bytes remain
Dmc_fetching(d) == d.length > 0 /\ d.sample_buffer_empty

\* DMC::clock: the end of the sample
Dmc_end(a) ==
    IF a.dmc.length # 0 THEN a
    ELSE IF a.dmc.loops
    THEN [a EXCEPT !.dmc.length = a.dmc.length_load, !.dmc.addr = a.dmc.addr_load]
    ELSE IF a.dmc.irq_enabled THEN [a EXCEPT !.dmc_irq_pending = TRUE]
    ELSE a

\* DMC::clock: the byte read through the CPU is taken into the sample buffer
Dmc_take(mm) ==
    [mm EXCEPT !.apu = Dmc_end([@ EXCEPT
         !.dmc.sample_buffer = mm.data,
         !.dmc.sample_buffer_empty = FALSE,
         !.dmc.addr = LET n == Word(@ + 1) IN IF n >= 32768 THEN n ELSE n + 32768,
         !.dmc.length = @ - 1])]

\* DMC::clock: the sample fetch, unsafe { &mut *self.cpu }.read(self.addr).
\* Nothing in the program sets the pointer DMC::new leaves null, so the
\* dereference is undefined: the fetch either ends the process or reads the
\* bus as if the pointer were the CPU.  The CPU's stall count is not touched.
dmc_fetch(s, outcome) ==
    IF ~Dmc_fetching(s.mem.apu.dmc) THEN s
    ELSE IF outcome = "abort"
    THEN [s EXCEPT !.ghost.dmc_fault = TRUE, !.ghost.dmc_now = @ + 1]
    ELSE [s EXCEPT !.mem = Dmc_take(MemoryMap_read(s.mem, s.mem.apu.dmc.addr)),
                   !.ghost.dmc_now = @ + 1]

\* Apu::clock: self.dmc.clock() on the even cycles
apu_dmc(s, outcome) ==
    IF s.mem.apu.cycle % 2 = 0
    THEN dmc_fetch([s EXCEPT !.mem.apu.dmc = Dmc_timer(@)], outcome)
    ELSE s

\* Apu::clock after the channels, and the deck's lines after it
apu_frame(s) == apu_lines(s, Apu_clock(s.mem.apu))

\* one iteration of the APU loop
apu_iter(s, outcome) == apu_frame(apu_dmc(s, outcome))

\* for _ in 0..cpu_cycles
RECURSIVE apu_loop(_, _, _)
apu_loop(s, n, outcome) ==
    IF n = 0 THEN s ELSE apu_loop(apu_iter(s, outcome), n - 1, outcome)

\* what the dereference of the DMC's CPU pointer can do
DmcOutcomes == {"read", "abort"}

(***************************************************************************)
(* Power-on state.                                                          *)
(***************************************************************************)

\* Cpu::init, before the reset vector is read
Cpu_init ==
    [cycle_count |-> POWER_ON_CYCLES, stall |-> 0, step |-> 0, pc |-> 0,
     sp |-> POWER_ON_SP, acc |-> 0, x |-> 0, y |-> 0, status |-> POWER_ON_STATUS,
     instr |-> 0, abs_addr |-> 0, fetched_data |-> 0, interrupt |-> "None"]

\* Ppu::init with PpuRegs::new, Oam::new, Vram::init and Frame::new
Ppu_init ==
    [cycle |-> 0, scanline |-> 0, nmi_delay_enabled |-> TRUE, nmi_pending |-> FALSE,
     open_bus |-> 0, ctrl |-> 0, mask |-> 0, status |-> 160, oamaddr |-> 0,
     nmi_delay |-> 0, nmi_previous |-> FALSE, v |-> 0, t |-> 0, x |-> 0, w |-> FALSE,
     oam |-> EmptyMem, buffer |-> 0, nametable |-> EmptyMem, palette |-> EmptyMem,
     frame_num |-> 0, parity |-> FALSE]

\* Apu::new
\* DMC::new; cpu is the pointer to the CPU the DMC reads its samples through
Dmc_new ==
    [cpu |-> "null", irq_enabled |-> FALSE, loops |-> FALSE, freq_timer |-> 0,
     freq_counter |-> 0, addr |-> 0, addr_load |-> 0, length |-> 0, length_load |-> 0,
     sample_buffer |-> 0, sample_buffer_empty |-> FALSE, output_bits |-> 0]

Apu_init ==
    [irq_pending |-> FALSE, irq_enabled |-> FALSE, open_bus |-> 0, cycle |-> 0,
     samples |-> 0, step |-> 1, counter |-> 7457, mode |-> "Step4", dmc_irq_pending |-> FALSE,
     dmc |-> Dmc_new,
     events |-> <<>>]

\* Joypad::new
Joypad_init == [buttons |-> 0, index |-> 0, strobe |-> FALSE]

\* Axrom::load of a cartridge with one PRG bank and no CHR-ROM
Axrom_load(name) ==
    [cart |-> name, prg |-> EmptyMem, chr |-> EmptyMem, has_chr_ram |-> TRUE,
     open_bus |-> 0, prg_rom_bank |-> 0, prg_rom_banks |-> 1,
     mirroring |-> "Horizontal"]

\* MemoryMap::init followed by load_mapper
MemoryMap_init(name) ==
    [ram |-> EmptyMem, ppu |-> Ppu_init, apu |-> Apu_init,
     input |-> <<Joypad_init, Joypad_init>>, mapper |-> Axrom_load(name),
     open_bus |-> 0, data |-> 0]

\* what a call of Cpu::clock reports, before the call
Io_init ==
    [bus |-> <<>>, word |-> 0, mode_cycle |-> 0, op_cycle |-> 0, serviced |-> "None",
     ret |-> 0, stalled |-> FALSE, panic |-> FALSE,
     entry |-> [pc |-> 0, sp |-> 0, status |-> 0, frame_irq |-> FALSE,
                irq_masked |-> FALSE, cycle_count |-> 0, ppu_status |-> 0,
                ppu_w |-> FALSE, ppu_v |-> 0, oamaddr |-> 0, x |-> 0, y |-> 0,
                prg_rom_bank |-> 0]]

Ghost_init ==
    [dots |-> 0, apu_clocks |-> 0, dots0 |-> 0, apu0 |-> 0, edges |-> 0, nmis |-> 0,
     nmi_low |-> FALSE, nmi_owed |-> FALSE, frame_irq |-> FALSE, irq_masked |-> FALSE,
     ctrl_edge |-> FALSE, prev_ctrl_edge |-> FALSE, trace |-> <<>>,
     dma_hold |-> 0, held |-> 0, frame_dots |-> 0, last_len |-> 0,
     last_odd |-> FALSE, last_rendering |-> FALSE, vbl_set |-> FALSE,
     apu_writes |-> 0, dmc_now |-> 0, dmc_fault |-> FALSE,
     mapper_clocks |-> 0, quiet |-> 0, reset_at |-> -1, accesses |-> 0,
     pad |-> [val |-> 0, held |-> 0, strobe |-> FALSE, k0 |-> -1, idx0 |-> 0,
              k |-> -1, n |-> 0, fresh |-> FALSE],
     nt |-> EmptyMem]

\* Cpu::power_on
power_on(m) == set_pc(readw(m, RESET_ADDR))

\* the state in which Console::power_on leaves the machine m
PoweredDeck(m) ==
    /\ cpu = m.cpu
    /\ mem = m.mem
    /\ io = Io_init
    /\ ghost = Ghost_init
    /\ deck = [phase |-> "cpu", cycles |-> 0, picks |-> 0, clocks |-> 0]
    /\ dbg = [addr |-> 0, val |-> 0, n |-> 0]

\* Exrom::load: the fields of the in-frame detection and the scanline IRQ
\* (spr_fetch_count, which only tells sprite fetches apart, is not carried),
\* prg_banks[0] and the two PRG-RAM chips.  written, got and accesses note
\* the bytes written to $6000-$7FFF since the bank was last selected, the
\* last read and the accesses made
Exrom_load ==
    [in_frame |-> FALSE, irq_counter |-> 0, scanline_num_irq |-> 255,
     irq_pending |-> FALSE, ppu_prev_addr |-> 65535, ppu_prev_match |-> 0,
     ppu_reading |-> FALSE, ppu_idle |-> 0,
     prg_bank0 |-> 0, prg_ram |-> <<EmptyMem, EmptyMem>>,
     written |-> EmptyMem, got |-> [addr |-> 0, val |-> 0], accesses |-> 0]

\* exrom.rs: the size of a PRG-RAM bank, and self.prg_ram.len(), the length
\* of the array [Ram; 2]
PRG_RAM_BANK_SIZE == 8192
PRG_RAM_CHIPS == 2

\* Exrom::peek and Exrom::write of $6000-$7FFF: the index into the chip
prg_ram_index(s, addr) ==
    (s.prg_bank0 * PRG_RAM_BANK_SIZE + ((addr - 24576) % PRG_RAM_BANK_SIZE))
        % PRG_RAM_CHIPS

\* the chip Exrom::peek reads: bit 2 of the index
peek_chip(s, addr) == (prg_ram_index(s, addr) \div 4) % 2

\* the chip Exrom::write writes: bit 2 of the CPU address
write_chip(addr) == (addr \div 4) % 2

\* Exrom::peek of $6000-$7FFF
Exrom_peek_ram(s, addr) ==
    MemGet(s.prg_ram[peek_chip(s, addr) + 1], prg_ram_index(s, addr))

\* Exrom::write of $6000-$7FFF
Exrom_write_ram(s, addr, val) ==
    [s EXCEPT !.prg_ram[write_chip(addr) + 1] =
                  MemSet(@, prg_ram_index(s, addr), val)]

\* Exrom::write_prg_bankswitching of $5113
write_prg_bankswitching(s, val) == [s EXCEPT !.prg_bank0 = val % 128]

\* the two frame loops: Console::clock_frame and Ui::clock_frame
FrameCallers == {"Console", "Ui"}

\* no clock_frame running: its caller, its cycle budget, the PPU frame on
\* entry, the deck steps counted at its last loop test, its completed calls
NoFrame ==
    [caller |-> "Console", active |-> FALSE, cycles_remaining |-> 0, frame0 |-> 0,
     seen |-> 0, frames |-> 0]

\* the ROM files with an MMC1 board, and those of them with a battery
SramRoms == {1, 2, 3}
BatteryRoms == {1, 2}

\* mapper::load_rom of ROM file rom, with Sxrom::load: a fresh PRG-RAM.  disk
\* is the .sram file beside each ROM file, event the last call made on the
\* console, at_event the ROM loaded and its PRG-RAM when the call was made
NoFile == [exists |-> FALSE, data |-> EmptyMem]
Sxrom_load(rom) ==
    [loaded_rom |-> rom, battery_backed |-> rom \in BatteryRoms,
     prg_ram |-> EmptyMem, disk |-> [r \in SramRoms |-> NoFile],
     calls |-> 0, event |-> "load_rom", at_event |-> [rom |-> rom, battery_backed |-> FALSE,
                                         prg_ram |-> EmptyMem]]

(***************************************************************************)
(* The MMC1 board (mapper/m001_sxrom.rs): the serial port at $8000-$FFFF,   *)
(* its registers, and the banks and the mirroring update_banks derives from *)
(* them.  prg and chr are the bank numbers handed to set_bank for the two   *)
(* PRG windows ($8000, $C000) and the two CHR windows ($0000, $1000).       *)
(***************************************************************************)

PRG_ROM_WINDOW == 16384
SHIFT_REG_RESET == 128
DEFAULT_SHIFT_REGISTER == 16
MIRRORING_MASK == 3
PRG_MODE_MASK == 12
CHR_MODE_MASK == 16
PRG_MODE_FIX_FIRST == 8
PRG_MODE_FIX_LAST == 12
PRG_BANK_MASK == 15
PRG_RAM_DISABLED == 16

\* SxRegs as Sxrom::load builds it
SxRegs_init ==
    [write_just_occurred |-> 0, shift_register |-> DEFAULT_SHIFT_REGISTER,
     control |-> PRG_MODE_FIX_LAST, chr_bank0 |-> 0, chr_bank1 |-> 0,
     prg_bank |-> PRG_RAM_DISABLED, last_chr_reg |-> "A000"]

\* Sxrom::update_banks: the mirroring of the control register
control_mirroring(s) ==
    CASE BitAnd(s.regs.control, MIRRORING_MASK) = 0 -> "SingleScreenA"
      [] BitAnd(s.regs.control, MIRRORING_MASK) = 1 -> "SingleScreenB"
      [] BitAnd(s.regs.control, MIRRORING_MASK) = 2 -> "Vertical"
      [] OTHER -> "Horizontal"

\* Sxrom::update_banks: extra_reg, prg_bank, prg_bank_select and last_bank
extra_reg(s) ==
    IF s.regs.last_chr_reg = "C000"
       /\ BitAnd(s.regs.control, CHR_MODE_MASK) = CHR_MODE_MASK
    THEN s.regs.chr_bank1 ELSE s.regs.chr_bank0

prg_bank(s) == BitAnd(s.regs.prg_bank, PRG_BANK_MASK)

prg_bank_select(s) ==
    IF s.prg_rom_banks * PRG_ROM_WINDOW = 524288
    THEN BitAnd(extra_reg(s), CHR_MODE_MASK) ELSE 0

last_bank(s) == s.prg_rom_banks - 1

\* Sxrom::update_banks: the banks set at $8000 and $C000
prg_banks(s) ==
    CASE BitAnd(s.regs.control, PRG_MODE_MASK) = PRG_MODE_FIX_FIRST ->
           <<prg_bank_select(s), BitOr(prg_bank(s), prg_bank_select(s))>>
      [] BitAnd(s.regs.control, PRG_MODE_MASK) = PRG_MODE_FIX_LAST ->
           <<BitOr(prg_bank(s), prg_bank_select(s)),
             BitOr(last_bank(s), prg_bank_select(s))>>
      [] OTHER ->
           <<BitOr(BitAnd(prg_bank(s), 254), prg_bank_select(s)),
             BitOr(BitOr(prg_bank(s), 1), prg_bank_select(s))>>

\* Sxrom::update_banks: the banks set at $0000 and $1000 of the PPU
chr_banks(s) ==
    IF BitAnd(s.regs.control, CHR_MODE_MASK) = CHR_MODE_MASK
    THEN <<s.regs.chr_bank0, s.regs.chr_bank1>>
    ELSE <<BitAnd(s.regs.chr_bank0, 254), BitOr(s.regs.chr_bank0, 1)>>

\* Sxrom::update_banks
update_banks(s) ==
    [s EXCEPT !.mirroring = control_mirroring(s),
              !.prg = prg_banks(s),
              !.chr = chr_banks(s)]

\* Sxrom::load of a cartridge whose PRG-ROM has banks banks of 16 KiB.
\* seen, last, n and took note the accepted bits since the shift register
\* was reset, the last write of the port, the writes made and which writes
\* of the last instruction were accepted
Mmc1_load(banks) ==
    update_banks([regs |-> SxRegs_init, prg_rom_banks |-> banks,
                  mirroring |-> "SingleScreenA", prg |-> <<0, 0>>, chr |-> <<0, 0>>,
                  seen |-> <<>>, last |-> [addr |-> 0, val |-> 0], n |-> 0,
                  took |-> <<>>])

\* Sxrom::write_registers: the shift register after val's bit 0 has come in
shift_in(s, val) == BitOr(s.regs.shift_register \div 2, (val % 2) * 16)

\* Sxrom::write_registers: the register the address selects is loaded
load_reg(s, addr, val) ==
    CASE addr <= 40959 -> [s EXCEPT !.regs.control = val]
      [] addr <= 49151 -> [s EXCEPT !.regs.last_chr_reg = "A000",
                                    !.regs.chr_bank0 = val]
      [] addr <= 57343 -> [s EXCEPT !.regs.last_chr_reg = "C000",
                                    !.regs.chr_bank1 = val]
      [] OTHER -> [s EXCEPT !.regs.prg_bank = val]

\* Sxrom::write_registers: bit 7 of the value is set
port_reset(s) ==
    [s EXCEPT !.regs.write_just_occurred = 2,
              !.regs.shift_register = DEFAULT_SHIFT_REGISTER,
              !.regs.control = BitOr(@, PRG_MODE_FIX_LAST)]

\* Sxrom::write_registers: bit 7 clear, the fifth bit loads a register
port_shift(s, addr, val) ==
    IF s.regs.shift_register % 2 = 1
    THEN update_banks([load_reg(s, addr, shift_in(s, val)) EXCEPT
                          !.regs.write_just_occurred = 2,
                          !.regs.shift_register = DEFAULT_SHIFT_REGISTER])
    ELSE [s EXCEPT !.regs.write_just_occurred = 2,
                   !.regs.shift_register = shift_in(s, val)]

\* a serial port that loads the register with the four bits before the fifth
write_registers_early(s, addr, val) ==
    IF s.regs.write_just_occurred > 0 THEN s
    ELSE IF BitAnd(val, SHIFT_REG_RESET) = SHIFT_REG_RESET THEN port_reset(s)
    ELSE IF s.regs.shift_register % 2 = 1
    THEN update_banks([load_reg(s, addr, s.regs.shift_register) EXCEPT
                          !.regs.write_just_occurred = 2,
                          !.regs.shift_register = DEFAULT_SHIFT_REGISTER])
    ELSE port_shift(s, addr, val)

\* Sxrom::write_registers
write_registers(s, addr, val) ==
    IF s.regs.write_just_occurred > 0 THEN s
    ELSE IF BitAnd(val, SHIFT_REG_RESET) = SHIFT_REG_RESET THEN port_reset(s)
    ELSE port_shift(s, addr, val)

\* <Sxrom as MemWrite>::write of $8000-$FFFF, with the write noted
Sxrom_write(s, addr, val) ==
    [write_registers(s, addr, val) EXCEPT
        !.seen = IF s.regs.write_just_occurred > 0 THEN @
                 ELSE IF val >= SHIFT_REG_RESET \/ Len(@) = 4 THEN <<>>
                 ELSE Append(@, val % 2),
        !.last = [addr |-> addr, val |-> val],
        !.took = Append(@, s.regs.write_just_occurred = 0)]

\* a mapper whose ignore window never closes
Sxrom_clock_stuck(s) == s

\* <Sxrom as Clocked>::clock
Sxrom_clock(s) ==
    IF s.regs.write_just_occurred > 0
    THEN [s EXCEPT !.regs.write_just_occurred = @ - 1]
    ELSE s

\* <Sxrom as Powered>::reset
Sxrom_reset(s) ==
    [update_banks([s EXCEPT !.regs.shift_register = DEFAULT_SHIFT_REGISTER,
                            !.regs.control = PRG_MODE_FIX_LAST,
                            !.regs.prg_bank = PRG_RAM_DISABLED])
        EXCEPT !.seen = <<>>]

\* Console::init and power_on: no_save and running, with the save file of slot 1 (no file
\* yet) and what the last save_state or load_state returned to its caller
Console_init ==
    [no_save |-> FALSE, running |-> TRUE, file |-> <<>>, ret |-> "None",
     saves |-> 0, loads |-> 0, bad |-> FALSE, saved |-> <<>>]

\* ui.rs: the length of the rewind queue and the seconds between snapshots
REWIND_SIZE == 20
REWIND_TIMER == 5

\* the windows of the engine: 1 is the main window, 2 a viewer window
WindowIds == {1, 2}

\* the fields of Ui that Ui::poll_events reads before it has written them
Ui_focus_init == [lost_focus |-> FALSE, focused_window |-> 1]

\* the front end once a ROM runs.  Of Ui: paused (Ui::power_on has cleared
\* it), lost_focus and focused_window; of Nes: mode (Nes::load_rom has set
\* Playing) and config.pause_in_bg.  why and nes_why are what made the
\* pause each of them is in, hist the events delivered so far
Ui_init(pause_in_bg) ==
    [paused |-> FALSE, lost_focus |-> Ui_focus_init.lost_focus,
     focused_window |-> Ui_focus_init.focused_window,
     mode |-> "Playing", pause_in_bg |-> pause_in_bg,
     why |-> "none", nes_why |-> "none", hist |-> <<>>,
     rewind_timer |-> 3 * REWIND_TIMER, rewind_slot |-> 0, rewind_save |-> 0,
     rewind_queue |-> <<>>, rewind_enabled |-> TRUE,
     stamps |-> <<>>, slots |-> EmptyMem, shots |-> 0, rewinds |-> 0, loaded |-> 0]

\* the parts beside the deck and the front end, before any of them has run
PoweredBeside ==
    /\ mmc5 = Exrom_load
    /\ sav = Console_init
    /\ sram = Sxrom_load(1)
    /\ fr = NoFrame
    /\ mmc1 = Mmc1_load(16)

Powered(m) ==
    /\ PoweredDeck(m)
    /\ PoweredBeside
    /\ ui = Ui_init(TRUE)

\* Console::init, load_rom and power_on for cartridge name
InitCart(name) ==
    Powered(power_on([cpu |-> Cpu_init, mem |-> MemoryMap_init(name),
                      io |-> Io_init, ghost |-> Ghost_init]))

Init == \E name \in CartNames : InitCart(name)

(***************************************************************************)
(* The three phases of Console::clock.                                      *)
(***************************************************************************)

\* the address of the opcode the next Cpu::clock fetches
FetchPc ==
    CASE cpu.interrupt = "NMI" -> Carts[mem.mapper.cart].nmi_at
      [] cpu.interrupt = "IRQ" -> Carts[mem.mapper.cart].irq_at
      [] OTHER -> cpu.pc

\* the next Cpu::clock fetches an instruction of the free region that no
\* fetch has fixed yet
Lazy == cpu.stall = 0 /\ Unfetched(Carts[mem.mapper.cart], mem.mapper.prg, FetchPc)

\* the machine on entry to Cpu::clock, with instruction ins placed at FetchPc
CpuEntry(ins) ==
    [cpu |-> cpu,
     mem |-> [mem EXCEPT !.mapper.prg = Place(@, FetchPc, ins)],
     io |-> [Io_init EXCEPT
               !.stalled = cpu.stall > 0,
               !.serviced = IF cpu.stall > 0 THEN "None" ELSE cpu.interrupt,
               !.entry = [pc |-> cpu.pc, sp |-> cpu.sp, status |-> cpu.status,
                          frame_irq |-> ghost.frame_irq,
                          irq_masked |-> ghost.irq_masked,
                          cycle_count |-> cpu.cycle_count,
                          ppu_status |-> mem.ppu.status, ppu_w |-> mem.ppu.w,
                          ppu_v |-> read_addr(mem.ppu), oamaddr |-> mem.ppu.oamaddr,
                          x |-> cpu.x, y |-> cpu.y,
                          prg_rom_bank |-> mem.mapper.prg_rom_bank]],
     ghost |-> [ghost EXCEPT
               !.trace = <<"cpu">>,
               !.dots0 = ghost.dots,
               !.apu0 = ghost.apu_clocks,
               !.prev_ctrl_edge = IF cpu.stall > 0 THEN @ ELSE ghost.ctrl_edge,
               !.ctrl_edge = IF cpu.stall > 0 THEN @ ELSE FALSE,
               !.nmi_owed = IF cpu.stall = 0 /\ cpu.interrupt = "NMI" THEN FALSE ELSE @]]

\* the instruction of the step has stored to $4014
WroteOamdma(m) ==
    Instr(m.cpu.instr).op \in {"STA", "STX"} /\ m.cpu.abs_addr = 16404

\* the cycles the CPU is to be held after a step, and those it has been held:
\* 513 after a store to $4014, one more when the cycle counter was odd at the
\* store (an interrupt serviced in the step has added 7 by then)
HoldSeen(m) ==
    IF m.io.stalled THEN [m.ghost EXCEPT !.held = @ + m.io.ret]
    ELSE [m.ghost EXCEPT
            !.held = 0,
            !.dma_hold =
                IF WroteOamdma(m)
                THEN 513 + ((m.io.entry.cycle_count
                             + (IF m.io.serviced = "None" THEN 0 ELSE 7)) % 2)
                ELSE 0]

\* the deck after Cpu::clock left the machine as m
CpuReturn(m, picked) ==
    /\ cpu' = m.cpu
    /\ mem' = m.mem
    /\ io' = [m.io EXCEPT !.word = 0, !.mode_cycle = 0, !.op_cycle = 0]
    /\ ghost' = HoldSeen(m)
    /\ deck' = [phase |-> "ppu", cycles |-> m.io.ret, clocks |-> deck.clocks,
                picks |-> IF picked THEN deck.picks + 1 ELSE deck.picks]

\* let cpu_cycles = self.cpu.clock().  When the CPU is about to fetch an
\* address of the free region for the first time, the instruction there is
\* taken from the cartridge's menu.
CpuStep ==
    /\ deck.phase = "cpu"
    /\ ~io.panic
    /\ Lazy => deck.picks < MaxSteps
    /\ \E ins \in (IF Lazy THEN Carts[mem.mapper.cart].menu ELSE {<<>>}) :
           CpuReturn(Cpu_clock(CpuEntry(ins)), Lazy)

CpuClock == CpuStep /\ UNCHANGED <<dbg, side>>

\* the deck after one of its loops left cpu, mem and ghost as in s
LoopReturn(s) ==
    /\ cpu' = s.cpu
    /\ mem' = s.mem
    /\ ghost' = s.ghost

\* the PPU loop
PpuStep ==
    /\ deck.phase = "ppu"
    /\ ~io.panic
    /\ LoopReturn(ppu_loop([cpu |-> cpu, mem |-> mem, ghost |-> ghost],
                           ppu_cycles(deck.cycles)))
    /\ deck' = [deck EXCEPT !.phase = "apu"]
    /\ UNCHANGED io

PpuLoop == PpuStep /\ UNCHANGED <<dbg, side>>

\* the APU loop
ApuLoop ==
    /\ deck.phase = "apu"
    /\ ~io.panic
    /\ \E outcome \in DmcOutcomes :
           LoopReturn(apu_loop([cpu |-> cpu, mem |-> mem,
                                ghost |-> [ghost EXCEPT !.dmc_now = 0]],
                               deck.cycles, outcome))
    /\ deck' = [deck EXCEPT !.phase = "cpu", !.clocks = @ + 1]
    /\ io' = [io EXCEPT !.panic = ghost'.dmc_fault]
    /\ UNCHANGED <<dbg, side>>

Next == CpuClock \/ PpuLoop \/ ApuLoop

Spec == Init /\ [][Next]_vars

(***************************************************************************)
(* The debugger's view of memory: <Cpu as Memory>::peek between deck steps. *)
(***************************************************************************)

\* the addresses peeked: PPUSTATUS, OAMDATA, PPUDATA, APU status, both
\* joypad ports and a mirror of PPUSTATUS
PeekAddrs == {8194, 8196, 8199, 16405, 16406, 16407, 8202}

\* a peek that goes through the reading path of the bus
DebugPeek_read(mm, addr) ==
    [mm |-> MemoryMap_read(mm, addr), val |-> MemoryMap_read(mm, addr).data]

\* <Cpu as Memory>::peek: the bus after the peek and the byte returned
DebugPeek(mm, addr) == [mm |-> mm, val |-> MemoryMap_peek(mm, addr)]

\* the bus and the byte go to the deck's state and to the debugger's display
PeekReturn(addr, r) ==
    /\ mem' = r.mm
    /\ dbg' = [addr |-> addr, val |-> r.val, n |-> 1 - dbg.n]

Peek ==
    /\ deck.phase = "cpu"
    /\ \E addr \in PeekAddrs : PeekReturn(addr, DebugPeek(mem, addr))
    /\ UNCHANGED <<cpu, deck, io, ghost, side>>

PeekCarts == {"nmi", "rmw"}

InitPeek == \E name \in PeekCarts : InitCart(name)

NextPeek == CpuClock \/ PpuLoop \/ ApuLoop \/ Peek

SpecPeek == InitPeek /\ [][NextPeek]_vars

(***************************************************************************)
(* The PPU on its own: Ppu::clock, dot after dot, from power-on with the     *)
(* mask register written once before the first dot.                          *)
(***************************************************************************)

\* the frames clocked
MaxFrames == 2

\* the values written to PPUMASK: rendering off, background on
PpuMasks == {0, 8}

\* what one dot shows: it took the PPU from p0 to p1
PpuSeen(g, p0, p1) ==
    [g EXCEPT
       !.frame_dots = IF p1.frame_num # p0.frame_num THEN 0 ELSE @ + 1,
       !.last_len = IF p1.frame_num # p0.frame_num THEN g.frame_dots + 1 ELSE @,
       !.last_odd = IF p1.frame_num # p0.frame_num THEN p0.frame_num % 2 = 1 ELSE @,
       !.last_rendering =
           IF p1.frame_num # p0.frame_num THEN rendering_enabled(p0) ELSE @,
       !.vbl_set = IF p1.frame_num # p0.frame_num THEN FALSE
                   ELSE IF p1.scanline = VBLANK_SCANLINE /\ p1.cycle = 1
                           /\ vblank_started(p1)
                        THEN TRUE ELSE @]

PpuTick ==
    /\ mem.ppu.frame_num < MaxFrames
    /\ mem' = [mem EXCEPT !.ppu = Ppu_clock(@)]
    /\ ghost' = PpuSeen(ghost, mem.ppu, Ppu_clock(mem.ppu))
    /\ UNCHANGED <<cpu, deck, io, dbg, side>>

InitPpu ==
    \E mask \in PpuMasks :
        Powered([power_on([cpu |-> Cpu_init, mem |-> MemoryMap_init("nmi"),
                           io |-> Io_init, ghost |-> Ghost_init])
                    EXCEPT !.mem.ppu = write_ppumask(@, mask)])

NextPpu == PpuTick

SpecPpu == InitPpu /\ [][NextPpu]_vars

(***************************************************************************)
(* The PPU's scroll registers: writes of $2000, $2001, $2005, $2006 and    *)
(* $2007 and reads of $2002 and $2007 between the dots of the first         *)
(* scanline.                                                                *)
(***************************************************************************)

\* the register accesses and the dots of one run
MaxAccesses == 7
MaxDots == 8

\* the registers written and read, and the byte written
ScrollWrites == {8192, 8193, 8197, 8198, 8199}
ScrollReads == {8194, 8199}
ScrollVals == {255}

\* the program has not panicked and may access one more register
MayAccess == ~io.panic /\ ghost.accesses < MaxAccesses

\* <Ppu as Memory>::write
ScrollWrite ==
    /\ MayAccess
    /\ \E addr \in ScrollWrites, val \in ScrollVals : mem' = Ppu_write(mem, addr, val)
    /\ ghost' = [ghost EXCEPT !.accesses = @ + 1]
    /\ UNCHANGED <<cpu, deck, io, dbg, side>>

\* <Ppu as Memory>::read
ScrollRead ==
    /\ MayAccess
    /\ \E addr \in ScrollReads : mem' = Ppu_read(mem, addr)
    /\ ghost' = [ghost EXCEPT !.accesses = @ + 1]
    /\ UNCHANGED <<cpu, deck, io, dbg, side>>

\* Ppu::clock; a failed assertion of increment_x ends the program
ScrollTick ==
    /\ ~io.panic
    /\ mem.ppu.cycle < MaxDots /\ mem.ppu.scanline = 0
    /\ mem' = [mem EXCEPT !.ppu = Ppu_clock(@)]
    /\ io' = [io EXCEPT !.panic = clock_asserts(mem.ppu)]
    /\ UNCHANGED <<cpu, deck, ghost, dbg, side>>

InitScroll == InitCart("nmi")

NextScroll == ScrollWrite \/ ScrollRead \/ ScrollTick

SpecScroll == InitScroll /\ [][NextScroll]_vars

(***************************************************************************)
(* The APU on its own: Apu::clock, cycle after cycle, from power-on with    *)
(* the frame counter register written once before the first cycle.          *)
(***************************************************************************)

\* the passes of the frame sequencer clocked
MaxPasses == 2

\* the values written to $4017: 4-step mode with the frame IRQ enabled and
\* inhibited
ApuWrites == {0, 64}

ApuTick ==
    /\ Len(mem.apu.events) < 6 * MaxPasses
    /\ mem' = [mem EXCEPT !.apu = Apu_clock(@)]
    /\ UNCHANGED <<cpu, deck, io, ghost, dbg, side>>

InitApu ==
    \E val \in ApuWrites :
        Powered([power_on([cpu |-> Cpu_init, mem |-> MemoryMap_init("nmi"),
                           io |-> Io_init, ghost |-> Ghost_init])
                    EXCEPT !.mem.apu = write_frame_counter(@, val)])

NextApu == ApuTick

SpecApu == InitApu /\ [][NextApu]_vars

(***************************************************************************)
(* The APU with its frame counter register rewritten while it runs: a      *)
(* write of $4017 lands on the cycle the sequencer reaches its IRQ step.    *)
(***************************************************************************)

\* the APU cycles run
MaxApuCycles == 70000

\* the writes of $4017 after the first
MaxWrites == 1

\* the values written to $4017: both modes, frame IRQ enabled and inhibited
FrameWrites == {0, 64, 128, 192}

FrameTick ==
    /\ mem.apu.cycle < MaxApuCycles
    /\ mem' = [mem EXCEPT !.apu = Apu_clock(@)]
    /\ UNCHANGED <<cpu, deck, io, ghost, dbg, side>>

FrameWrite ==
    /\ ghost.apu_writes < MaxWrites
    /\ mem.apu.counter = 0 /\ mem.apu.step = 4
    /\ \E val \in FrameWrites :
           mem' = [mem EXCEPT !.apu = write_frame_counter(@, val)]
    /\ ghost' = [ghost EXCEPT !.apu_writes = @ + 1]
    /\ UNCHANGED <<cpu, deck, io, dbg, side>>

InitFrame ==
    \E val \in FrameWrites :
        Powered([power_on([cpu |-> Cpu_init, mem |-> MemoryMap_init("nmi"),
                           io |-> Io_init, ghost |-> Ghost_init])
                    EXCEPT !.mem.apu = write_frame_counter(@, val)])

NextFrame == FrameTick \/ FrameWrite

SpecFrame == InitFrame /\ [][NextFrame]_vars

(***************************************************************************)
(* The MMC5 (ExROM) in-frame detection: the PPU's reads reach the mapper    *)
(* through vram_change, and the mapper is clocked once per PPU dot.         *)
(***************************************************************************)

\* the mapper clocks run
MaxMapperClocks == 24

\* the addresses the PPU reads: two nametable bytes and a pattern byte
VramAddrs == {8192, 8193, 16}

\* Exrom::vram_change, the scanline detected
vram_scanline(e) ==
    IF ~e.in_frame THEN [e EXCEPT !.in_frame = TRUE, !.irq_counter = 0]
    ELSE [e EXCEPT !.irq_counter = Word(@ + 1),
                   !.irq_pending = @ \/ Word(e.irq_counter + 1) = e.scanline_num_irq]

\* Exrom::vram_change, the match against the previous address
vram_match(e, addr) ==
    IF (addr \div 4096) = 2 /\ addr = e.ppu_prev_addr
    THEN IF e.ppu_prev_match + 1 = 2
         THEN vram_scanline([e EXCEPT !.ppu_prev_match = @ + 1])
         ELSE [e EXCEPT !.ppu_prev_match = @ + 1]
    ELSE [e EXCEPT !.ppu_prev_match = 0]

\* Exrom::vram_change
vram_change(e, addr) ==
    [vram_match(e, addr) EXCEPT !.ppu_prev_addr = addr, !.ppu_reading = TRUE]

\* a mapper clock that counts every clock as idle
Exrom_clock_counts_reads(e) ==
    [(IF e.ppu_idle + 1 = 9 THEN [e EXCEPT !.ppu_idle = 0, !.in_frame = FALSE]
      ELSE [e EXCEPT !.ppu_idle = @ + 1]) EXCEPT !.ppu_reading = FALSE]

\* <Exrom as Clocked>::clock
Exrom_clock(e) ==
    [(IF e.ppu_reading THEN [e EXCEPT !.ppu_idle = 0]
      ELSE IF e.ppu_idle + 1 = 9 THEN [e EXCEPT !.ppu_idle = 0, !.in_frame = FALSE]
      ELSE [e EXCEPT !.ppu_idle = @ + 1]) EXCEPT !.ppu_reading = FALSE]

\* the PPU reads addr; it reads at most one byte per dot
VramChange ==
    /\ ~mmc5.ppu_reading
    /\ \E addr \in VramAddrs : mmc5' = vram_change(mmc5, addr)
    /\ ghost' = [ghost EXCEPT !.quiet = 0]
    /\ UNCHANGED <<cpu, mem, deck, io, dbg, beside_mmc5>>

\* the deck clocks the mapper; ghost.quiet counts the clocks in a row that
\* saw no read, ghost.reset_at is its value when the latch was last reset
ExromClock ==
    /\ ghost.mapper_clocks < MaxMapperClocks
    /\ mmc5' = Exrom_clock(mmc5)
    /\ ghost' = [ghost EXCEPT
                   !.mapper_clocks = @ + 1,
                   !.quiet = IF mmc5.ppu_reading THEN 0 ELSE @ + 1,
                   !.reset_at = IF mmc5.in_frame /\ ~Exrom_clock(mmc5).in_frame
                                THEN (IF mmc5.ppu_reading THEN 0 ELSE ghost.quiet + 1)
                                ELSE @]
    /\ UNCHANGED <<cpu, mem, deck, io, dbg, beside_mmc5>>

InitMmc5 == InitCart("nmi")

NextMmc5 == VramChange \/ ExromClock

SpecMmc5 == InitMmc5 /\ [][NextMmc5]_vars

(***************************************************************************)
(* Save states: Console::save_state writes a header and then every Savable *)
(* field in turn; Console::load_state validates the header and reads the   *)
(* fields back in the same order.  The file is the sequence of the values  *)
(* written, one element per primitive save call.                           *)
(***************************************************************************)

\* b"TETANES\x1a"
SAVE_FILE_MAGIC == <<84, 69, 84, 65, 78, 69, 83, 26>>

\* CARGO_PKG_VERSION_MAJOR as text: "0"
MAJOR_VERSION == <<48>>

\* write_save_header
write_save_header == SAVE_FILE_MAGIC \o MAJOR_VERSION

\* validate_save_header: read_exact of the magic, then of one version byte
validate_save_header(f) ==
    IF Len(f) < Len(SAVE_FILE_MAGIC) THEN "Err"
    ELSE IF SubSeq(f, 1, Len(SAVE_FILE_MAGIC)) = SAVE_FILE_MAGIC
         THEN IF Len(f) < Len(SAVE_FILE_MAGIC) + 1 THEN "Err"
              ELSE IF <<f[Len(SAVE_FILE_MAGIC) + 1]>> = MAJOR_VERSION THEN "Ok"
                   ELSE "Err"
         ELSE "Err"

\* bool::save and bool::load
save_bool(b) == IF b THEN 1 ELSE 0
load_bool(v) == v > 0

\* Savable for Interrupt
save_Interrupt(i) == CASE i = "None" -> 0 [] i = "IRQ" -> 1 [] i = "NMI" -> 2
load_Interrupt(v) == CASE v = 0 -> "None" [] v = 1 -> "IRQ" [] v = 2 -> "NMI"

\* Savable for FCMode
save_FCMode(md) == CASE md = "Step4" -> 0 [] md = "Step5" -> 1
load_FCMode(v) == CASE v = 0 -> "Step4" [] v = 1 -> "Step5"

\* Savable for Instr: the opcode, its mode, its operation and its cycles
save_Instr(i) == <<i, Instr(i).mode, Instr(i).op, Instr(i).cycles>>
load_Instr(f, at) == f[at + 1]

\* Savable for Axrom.  prg_rom_banks and chr_banks are saved with their
\* contents; the PRG-ROM never changes, so only the bank count is carried.
save_Axrom(mp) ==
    <<save_bool(mp.has_chr_ram), mp.mirroring, mp.prg_rom_bank, mp.prg_rom_banks,
      mp.chr>>
load_Axrom(mp, f, at) ==
    [mp EXCEPT !.has_chr_ram = load_bool(f[at + 1]), !.mirroring = f[at + 2],
               !.prg_rom_bank = f[at + 3], !.prg_rom_banks = f[at + 4],
               !.chr = f[at + 5]]

\* Savable for PpuRegs
save_PpuRegs(p) ==
    <<p.open_bus, p.ctrl, p.mask, p.status, p.oamaddr, p.nmi_delay,
      save_bool(p.nmi_previous), p.v, p.t, p.x, save_bool(p.w)>>
load_PpuRegs(p, f, at) ==
    [p EXCEPT !.open_bus = f[at + 1], !.ctrl = f[at + 2], !.mask = f[at + 3],
              !.status = f[at + 4], !.oamaddr = f[at + 5], !.nmi_delay = f[at + 6],
              !.nmi_previous = load_bool(f[at + 7]), !.v = f[at + 8],
              !.t = f[at + 9], !.x = f[at + 10], !.w = load_bool(f[at + 11])]

\* Savable for Oam, Vram and Frame (the tile latches and the sprites of the
\* line, which the model does not carry, left out)
save_Vram(p) == <<p.oam, p.buffer, p.nametable, p.palette, p.frame_num,
                  save_bool(p.parity)>>
load_Vram(p, f, at) ==
    [p EXCEPT !.oam = f[at + 1], !.buffer = f[at + 2], !.nametable = f[at + 3],
              !.palette = f[at + 4], !.frame_num = f[at + 5],
              !.parity = load_bool(f[at + 6])]

\* Savable for Ppu
save_Ppu(p) ==
    <<p.cycle, p.scanline, save_bool(p.nmi_pending)>> \o save_PpuRegs(p)
        \o save_Vram(p)
load_Ppu(p, f, at) ==
    load_Vram(load_PpuRegs([p EXCEPT !.cycle = f[at + 1], !.scanline = f[at + 2],
                                     !.nmi_pending = load_bool(f[at + 3])],
                           f, at + 3),
              f, at + 3 + Len(save_PpuRegs(p)))

\* Savable for DMC
save_DMC(a) ==
    <<save_bool(a.dmc.irq_enabled), save_bool(a.dmc_irq_pending),
      save_bool(a.dmc.loops), a.dmc.freq_timer, a.dmc.freq_counter, a.dmc.addr,
      a.dmc.addr_load, a.dmc.length, a.dmc.length_load, a.dmc.sample_buffer,
      save_bool(a.dmc.sample_buffer_empty), a.dmc.output_bits>>
load_DMC(a, f, at) ==
    [a EXCEPT !.dmc_irq_pending = load_bool(f[at + 2]),
              !.dmc = [@ EXCEPT !.irq_enabled = load_bool(f[at + 1]),
                                !.loops = load_bool(f[at + 3]),
                                !.freq_timer = f[at + 4], !.freq_counter = f[at + 5],
                                !.addr = f[at + 6], !.addr_load = f[at + 7],
                                !.length = f[at + 8], !.length_load = f[at + 9],
                                !.sample_buffer = f[at + 10],
                                !.sample_buffer_empty = load_bool(f[at + 11]),
                                !.output_bits = f[at + 12]]]

\* Savable for Apu, with Savable for FrameCounter
save_Apu(a) ==
    <<save_bool(a.irq_pending), save_bool(a.irq_enabled), a.open_bus, a.cycle,
      a.samples, a.step, a.counter, save_FCMode(a.mode)>> \o save_DMC(a)
load_Apu(a, f, at) ==
    load_DMC([a EXCEPT !.irq_pending = load_bool(f[at + 1]),
                       !.irq_enabled = load_bool(f[at + 2]),
                       !.open_bus = f[at + 3], !.cycle = f[at + 4],
                       !.samples = f[at + 5], !.step = f[at + 6],
                       !.counter = f[at + 7], !.mode = load_FCMode(f[at + 8])],
             f, at + 8)

\* Savable for MemoryMap: the work RAM, the bus latch, the PPU, the APU and
\* the mapper
save_MemoryMap(mm) ==
    <<mm.ram, mm.open_bus>> \o save_Ppu(mm.ppu) \o save_Apu(mm.apu)
        \o save_Axrom(mm.mapper)
load_MemoryMap(mm, f, at) ==
    [mm EXCEPT !.ram = f[at + 1], !.open_bus = f[at + 2],
               !.ppu = load_Ppu(@, f, at + 2),
               !.apu = load_Apu(@, f, at + 2 + Len(save_Ppu(mm.ppu))),
               !.mapper = load_Axrom(@, f, at + 2 + Len(save_Ppu(mm.ppu))
                                              + Len(save_Apu(mm.apu)))]

\* Savable for Cpu, after its memory map
save_Cpu(c) ==
    <<c.cycle_count, c.stall, c.step, c.pc, c.sp, c.acc, c.x, c.y, c.status>>
        \o save_Instr(c.instr) \o <<c.abs_addr, c.fetched_data,
                                    save_Interrupt(c.interrupt)>>
load_Cpu(c, f, at) ==
    [c EXCEPT !.cycle_count = f[at + 1], !.stall = f[at + 2], !.step = f[at + 3],
              !.pc = f[at + 4], !.sp = f[at + 5], !.acc = f[at + 6],
              !.x = f[at + 7], !.y = f[at + 8], !.status = f[at + 9],
              !.instr = load_Instr(f, at + 9),
              !.abs_addr = f[at + 10 + Len(save_Instr(c.instr))],
              !.fetched_data = f[at + 11 + Len(save_Instr(c.instr))],
              !.interrupt = load_Interrupt(f[at + 12 + Len(save_Instr(c.instr))])]

\* Savable for Console: no_save, running and the CPU with its memory map
Console_save(k, c, mm) ==
    <<save_bool(k.no_save), save_bool(k.running)>> \o save_MemoryMap(mm)
        \o save_Cpu(c)

\* Savable for Console, load: the fields read back from file f after its header
Console_load(k, c, mm, f) ==
    [k |-> [k EXCEPT !.no_save = load_bool(f[Len(write_save_header) + 1]),
                     !.running = load_bool(f[Len(write_save_header) + 2])],
     mem |-> load_MemoryMap(mm, f, Len(write_save_header) + 2),
     cpu |-> load_Cpu(c, f, Len(write_save_header) + 2 + Len(save_MemoryMap(mm)))]

\* the core state: the CPU, the work RAM and bus latch, the PPU, the APU and
\* the mapper (without the ROM and without the model's own logs)
Core(c, mm) ==
    [cpu |-> c, ram |-> mm.ram, open_bus |-> mm.open_bus, ppu |-> mm.ppu,
     apu |-> [mm.apu EXCEPT !.events = <<>>],
     mapper |-> [mm.mapper EXCEPT !.prg = EmptyMem]]

\* save states written and read back in one run
MaxSaves == 1
MaxLoads == 1

\* the cartridges a save state is taken of
SaveCarts == {"bank", "brk"}

\* Console::save_state between two deck steps
SaveState ==
    /\ deck.phase = "cpu"
    /\ ~io.panic
    /\ ~sav.no_save
    /\ sav.saves < MaxSaves
    /\ sav' = [sav EXCEPT !.file = write_save_header \o Console_save(sav, cpu, mem),
                          !.ret = "Ok", !.saves = @ + 1, !.bad = FALSE,
                          !.saved = Core(cpu, mem)]
    /\ UNCHANGED <<cpu, mem, deck, io, ghost, dbg, beside_sav>>

\* the save file damaged on disk: a byte of the magic changed, the version
\* byte changed, or the file cut inside its header
Damaged(f) ==
    {[f EXCEPT ![i] = (@ + 1) % 256] : i \in 1..Len(write_save_header)}
        \cup {SubSeq(f, 1, n) : n \in {1, Len(SAVE_FILE_MAGIC)}}

Corrupt ==
    /\ sav.file # <<>>
    /\ ~sav.bad
    /\ sav.loads < MaxLoads
    /\ \E f \in Damaged(sav.file) : sav' = [sav EXCEPT !.file = f, !.bad = TRUE]
    /\ UNCHANGED <<cpu, mem, deck, io, ghost, dbg, beside_sav>>

\* the deck after Console::load_state read the fields of s
Loaded(s) ==
    /\ cpu' = s.cpu
    /\ mem' = s.mem
    /\ sav' = [s.k EXCEPT !.ret = "Ok", !.loads = @ + 1]

\* Console::load_state between two deck steps: a missing file and a file
\* whose header does not validate both leave the console alone and return Ok
LoadState ==
    /\ deck.phase = "cpu"
    /\ ~io.panic
    /\ ~sav.no_save
    /\ sav.loads < MaxLoads
    /\ IF sav.file # <<>> /\ validate_save_header(sav.file) = "Ok"
       THEN Loaded(Console_load(sav, cpu, mem, sav.file))
       ELSE Loaded([k |-> sav, cpu |-> cpu, mem |-> mem])
    /\ UNCHANGED <<deck, io, ghost, dbg, beside_sav>>

InitSave == \E name \in SaveCarts : InitCart(name)

NextSave == CpuClock \/ PpuLoop \/ ApuLoop \/ SaveState \/ Corrupt \/ LoadState

SpecSave == InitSave /\ [][NextSave]_vars

(***************************************************************************)
(* Battery-backed PRG-RAM: the console's reset, power_off, power_on and    *)
(* load_rom, with the program's stores to $6000-$7FFF between them.        *)
(***************************************************************************)

\* Cpu::reset (MemoryMap::reset is outside the sources: the memory map is
\* left as it is)
reset_counts(m) == [m EXCEPT !.cpu.cycle_count = POWER_ON_CYCLES, !.cpu.stall = 0]
reset(m) ==
    set_flag([set_pc(readw(reset_counts(m), RESET_ADDR))
                 EXCEPT !.cpu.sp = IF @ < 3 THEN 0 ELSE @ - 3], I, TRUE)

\* Cpu::power_cycle
power_cycle(m) ==
    [set_pc(readw(reset_counts(m), RESET_ADDR))
        EXCEPT !.cpu.sp = POWER_ON_SP, !.cpu.acc = 0, !.cpu.x = 0, !.cpu.y = 0,
               !.cpu.status = POWER_ON_STATUS]

\* Console::save_sram: the .sram file of the loaded ROM after the call
save_sram(k, s) ==
    IF k.no_save THEN s.disk
    ELSE IF s.battery_backed
         THEN [s.disk EXCEPT ![s.loaded_rom] = [exists |-> TRUE, data |-> s.prg_ram]]
         ELSE s.disk

\* Console::load_sram: the PRG-RAM after the call
load_sram(k, s) ==
    IF k.no_save THEN s.prg_ram
    ELSE IF s.battery_backed /\ s.disk[s.loaded_rom].exists
         THEN s.disk[s.loaded_rom].data
         ELSE s.prg_ram

\* calls of reset, power_off, power_on and load_rom in one run
MaxCalls == 4

\* the addresses and values the program stores to PRG-RAM
SramAddrs == {24576, 32767}
SramVals == {1, 2}

\* sram with the call named event noted on it
Called(s, event) ==
    [s EXCEPT !.event = event, !.calls = @ + 1,
              !.at_event = [rom |-> sram.loaded_rom,
                            battery_backed |-> sram.battery_backed,
                            prg_ram |-> sram.prg_ram]]

\* the deck after a call left the machine as m
Machine == [cpu |-> cpu, mem |-> mem, io |-> io, ghost |-> ghost]
CallReturn(m) ==
    /\ cpu' = m.cpu
    /\ mem' = m.mem
    /\ UNCHANGED <<deck, io, ghost, dbg>>

\* Sxrom::write of $6000-$7FFF by the running program
SramWrite ==
    /\ sav.running
    /\ \E addr \in SramAddrs, val \in SramVals :
           sram' = [sram EXCEPT !.prg_ram = MemSet(@, addr, val), !.event = "write"]
    /\ UNCHANGED <<cpu, mem, deck, io, ghost, dbg, beside_sram>>

\* Console::reset
ConsoleReset ==
    /\ sav.running
    /\ sram.calls < MaxCalls
    /\ CallReturn(reset(Machine))
    /\ sram' = Called(sram, "reset")
    /\ UNCHANGED beside_sram

\* Console::power_off
PowerOff ==
    /\ sav.running
    /\ sram.calls < MaxCalls
    /\ CallReturn(power_cycle(Machine))
    /\ sram' = Called([sram EXCEPT !.disk = save_sram(sav, sram)], "power_off")
    /\ sav' = [sav EXCEPT !.running = FALSE]
    /\ UNCHANGED <<mmc5, fr, ui, mmc1>>

\* Console::power_on
PowerOn ==
    /\ ~sav.running
    /\ sram.calls < MaxCalls
    /\ CallReturn(power_on(Machine))
    /\ sram' = Called([sram EXCEPT !.prg_ram = load_sram(sav, sram)], "power_on")
    /\ sav' = [sav EXCEPT !.running = TRUE]
    /\ UNCHANGED <<mmc5, fr, ui, mmc1>>

\* Console::load_rom: the mapper of the new ROM replaces the one loaded
LoadRom ==
    /\ sram.calls < MaxCalls
    /\ \E rom \in SramRoms :
           sram' = Called([sram EXCEPT !.loaded_rom = rom,
                                       !.battery_backed = rom \in BatteryRoms,
                                       !.prg_ram = EmptyMem], "load_rom")
    /\ UNCHANGED <<cpu, mem, deck, io, ghost, dbg, beside_sram>>

InitSram == InitCart("nmi")

NextSram == SramWrite \/ ConsoleReset \/ PowerOff \/ PowerOn \/ LoadRom

SpecSram == InitSram /\ [][NextSram]_vars

(***************************************************************************)
(* The MMC1 serial port on its own: writes of $8000-$FFFF, mapper clocks    *)
(* and resets in any order.                                                 *)
(***************************************************************************)

\* the writes of the port in one run
MaxPortWrites == 6

\* one address of each register, and the values written: a 0 bit, a 1 bit
\* and a reset
Mmc1Addrs == {32768, 40960, 49152, 57344}
Mmc1Vals == {0, 1, 128}

\* <Sxrom as MemWrite>::write
Mmc1Write ==
    /\ mmc1.n < MaxPortWrites
    /\ \E addr \in Mmc1Addrs, val \in Mmc1Vals :
           mmc1' = [Sxrom_write(mmc1, addr, val) EXCEPT !.took = <<>>, !.n = @ + 1]
    /\ UNCHANGED <<cpu, mem, deck, io, ghost, dbg, beside_mmc1>>

\* <Sxrom as Clocked>::clock
Mmc1Clock ==
    /\ mmc1.regs.write_just_occurred > 0
    /\ mmc1' = Sxrom_clock(mmc1)
    /\ UNCHANGED <<cpu, mem, deck, io, ghost, dbg, beside_mmc1>>

\* <Sxrom as Powered>::reset
Mmc1Reset ==
    /\ mmc1.n < MaxPortWrites
    /\ mmc1' = Sxrom_reset(mmc1)
    /\ UNCHANGED <<cpu, mem, deck, io, ghost, dbg, beside_mmc1>>

InitMmc1 == InitCart("nmi")

NextMmc1 == Mmc1Write \/ Mmc1Clock \/ Mmc1Reset

SpecMmc1 == InitMmc1 /\ [][NextMmc1]_vars

(***************************************************************************)
(* The MMC1 board on the bus of the deck: the writes of $8000-$FFFF reach   *)
(* the port as Cpu::clock makes them, and the PPU loop of Console::clock    *)
(* clocks the mapper once per dot.                                          *)
(***************************************************************************)

\* the writes of bus from the i-th on, as the mapper takes them
RECURSIVE Mmc1Bus(_, _, _)
Mmc1Bus(s, bus, i) ==
    IF i > Len(bus) THEN s
    ELSE Mmc1Bus(IF bus[i][1] = "w" /\ bus[i][2] >= 32768
                 THEN Sxrom_write(s, bus[i][2], bus[i][3]) ELSE s,
                 bus, i + 1)

\* mapper.clock(), k times
RECURSIVE Mmc1Clocks(_, _)
Mmc1Clocks(s, k) == IF k = 0 THEN s ELSE Mmc1Clocks(Sxrom_clock(s), k - 1)

\* let cpu_cycles = self.cpu.clock(), on an MMC1 board
Mmc1Cpu ==
    /\ CpuStep
    /\ mmc1' = Mmc1Bus([mmc1 EXCEPT !.took = <<>>], io'.bus, 1)
    /\ UNCHANGED <<dbg, beside_mmc1>>

\* the PPU loop, on an MMC1 board
Mmc1Ppu ==
    /\ PpuStep
    /\ mmc1' = Mmc1Clocks(mmc1, ppu_cycles(deck.cycles))
    /\ UNCHANGED <<dbg, beside_mmc1>>

InitMmc1Deck == \E name \in Mmc1Carts : InitCart(name)

NextMmc1Deck == Mmc1Cpu \/ Mmc1Ppu \/ ApuLoop

SpecMmc1Deck == InitMmc1Deck /\ [][NextMmc1Deck]_vars

(***************************************************************************)
(* The PRG-RAM window of the MMC5 board: writes and reads of $6000-$7FFF    *)
(* and bank selections through $5113.                                       *)
(***************************************************************************)

\* the accesses of one run
MaxRamAccesses == 4

\* the addresses of the window accessed, the bytes written, the banks
PrgRamAddrs == {24576, 24577, 24578, 24580}
PrgRamVals == {1, 2}
PrgRamBanks == {0, 1}

\* Exrom::write of $6000-$7FFF
PrgRamWrite ==
    /\ mmc5.accesses < MaxRamAccesses
    /\ \E addr \in PrgRamAddrs, val \in PrgRamVals :
           mmc5' = [Exrom_write_ram(mmc5, addr, val) EXCEPT
                       !.written = MemSet(@, addr, val),
                       !.accesses = @ + 1]
    /\ UNCHANGED <<cpu, mem, deck, io, ghost, dbg, beside_mmc5>>

\* Exrom::read of $6000-$7FFF
PrgRamRead ==
    /\ mmc5.accesses < MaxRamAccesses
    /\ \E addr \in PrgRamAddrs :
           mmc5' = [mmc5 EXCEPT
                       !.got = [addr |-> addr, val |-> Exrom_peek_ram(mmc5, addr)],
                       !.accesses = @ + 1]
    /\ UNCHANGED <<cpu, mem, deck, io, ghost, dbg, beside_mmc5>>

\* Exrom::write of $5113
PrgRamBank ==
    /\ mmc5.accesses < MaxRamAccesses
    /\ \E val \in PrgRamBanks :
           mmc5' = [write_prg_bankswitching(mmc5, val) EXCEPT
                       !.written = EmptyMem,
                       !.accesses = @ + 1]
    /\ UNCHANGED <<cpu, mem, deck, io, ghost, dbg, beside_mmc5>>

InitPrgRam == InitCart("nmi")

NextPrgRam == PrgRamWrite \/ PrgRamRead \/ PrgRamBank

SpecPrgRam == InitPrgRam /\ [][NextPrgRam]_vars

(***************************************************************************)
(* The first joypad on its own: writes of the strobe bit, reads, and        *)
(* buttons pressed and released between them.  ghost.pad notes of the last  *)
(* read the bit returned, the buttons held, the strobe and the index before *)
(* it and the reads since the strobe fell (k0; -1 when it has not fallen    *)
(* or has been raised since); k counts those reads, n the accesses.         *)
(***************************************************************************)

\* the writes and reads of one run
MaxPadAccesses == 12

\* the buttons held: none, A, and B with Start, Down and Right
PadButtons == {0, 1, 170}

\* Joypad::write
PadWrite ==
    /\ ghost.pad.n < MaxPadAccesses
    /\ \E val \in {0, 1} :
           /\ mem' = [mem EXCEPT !.input[1] = Joypad_write(@, val)]
           /\ ghost' = [ghost EXCEPT
                          !.pad.k = IF val = 1 THEN -1
                                    ELSE IF mem.input[1].strobe THEN 0 ELSE @,
                          !.pad.n = @ + 1,
                          !.pad.fresh = FALSE]
    /\ UNCHANGED <<cpu, deck, io, dbg, side>>

\* Joypad::read
PadRead ==
    /\ ghost.pad.n < MaxPadAccesses
    /\ mem' = [mem EXCEPT !.input[1] = Joypad_read(@)]
    /\ ghost' = [ghost EXCEPT
                   !.pad = [val |-> Joypad_peek(mem.input[1]),
                            held |-> mem.input[1].buttons,
                            strobe |-> mem.input[1].strobe,
                            k0 |-> @.k, idx0 |-> mem.input[1].index,
                            k |-> IF @.k >= 0 /\ @.k < 9 THEN @.k + 1 ELSE @.k,
                            n |-> @.n + 1, fresh |-> TRUE]]
    /\ UNCHANGED <<cpu, deck, io, dbg, side>>

\* Joypad::set_button: the buttons held change
PadSet ==
    /\ \E b \in PadButtons :
           /\ b # mem.input[1].buttons
           /\ mem' = [mem EXCEPT !.input[1].buttons = b]
    /\ ghost' = [ghost EXCEPT !.pad.fresh = FALSE]
    /\ UNCHANGED <<cpu, deck, io, dbg, side>>

InitPad == InitCart("nmi")

NextPad == PadWrite \/ PadRead \/ PadSet

SpecPad == InitPad /\ [][NextPad]_vars

(***************************************************************************)
(* The nametables behind Vram, for each mirroring a mapper can report:      *)
(* writes and reads of the four logical nametables.  ghost.nt notes the     *)
(* byte last written through each address.                                  *)
(***************************************************************************)

\* the writes and reads of one run
MaxNtAccesses == 3

\* the mirrorings, the first two bytes of each logical nametable, the bytes
\* written
Mirrorings == {"Horizontal", "Vertical", "SingleScreenA", "SingleScreenB", "FourScreen"}
NtAddrs == {8192, 8193, 9216, 9217, 10240, 10241, 11264, 11265}
NtVals == {1, 2}

\* Vram::write
NtWrite ==
    /\ ghost.accesses < MaxNtAccesses
    /\ \E addr \in NtAddrs, val \in NtVals :
           /\ mem' = Vram_write(mem, addr, val)
           /\ ghost' = [ghost EXCEPT !.nt = MemSet(@, addr, val),
                                     !.accesses = @ + 1]
    /\ UNCHANGED <<cpu, deck, io, dbg, side>>

\* Vram::read
NtRead ==
    /\ ghost.accesses < MaxNtAccesses
    /\ \E addr \in NtAddrs : mem' = Vram_read(mem, addr)
    /\ ghost' = [ghost EXCEPT !.accesses = @ + 1]
    /\ UNCHANGED <<cpu, deck, io, dbg, side>>

InitNt ==
    \E mirroring \in Mirrorings :
        Powered(power_on([cpu |-> Cpu_init,
                          mem |-> [MemoryMap_init("nmi") EXCEPT
                                      !.mapper.mirroring = mirroring],
                          io |-> Io_init, ghost |-> Ghost_init]))

NextNt == NtWrite \/ NtRead

SpecNt == InitNt /\ [][NextNt]_vars

(***************************************************************************)
(* Rewind: Ui::on_update saves a snapshot into a save slot each time its    *)
(* timer runs out and queues the slot; Ui::rewind loads the slot at the     *)
(* back of the queue.  Time is in whole seconds.  Beside the fields of Ui,  *)
(* stamps is the number of the snapshot each queue entry was pushed for,    *)
(* slots the number of the snapshot each save slot holds, shots and rewinds *)
(* count the snapshots and the rewind requests, loaded is the snapshot the  *)
(* last rewind loaded.                                                      *)
(***************************************************************************)

\* the snapshots and the rewind requests of one run
MaxSnapshots == 17
MaxRewinds == 2

\* the seconds a frame may take
Elapsed == {1, 5}

\* a sequence without its first and without its last element
PopFront(q) == SubSeq(q, 2, Len(q))
PopBack(q) == SubSeq(q, 1, Len(q) - 1)

\* Ui::on_update: the slot the snapshot goes to
snapshot_slot(u) ==
    IF u.rewind_save % REWIND_SIZE < 5 THEN 5 ELSE u.rewind_save % REWIND_SIZE

\* Ui::on_update: at most REWIND_SIZE entries are kept
trim_queue(u) ==
    IF Len(u.rewind_queue) > REWIND_SIZE
    THEN [u EXCEPT !.rewind_queue = PopFront(@), !.stamps = PopFront(@)]
    ELSE u

\* Ui::on_update: the queue has its length noted in rewind_slot
note_slot(u) == [u EXCEPT !.rewind_slot = Len(u.rewind_queue) % 256]

\* Ui::on_update: the timer has run out
take_snapshot(u) ==
    note_slot(trim_queue(
        [u EXCEPT !.rewind_timer = REWIND_TIMER,
                  !.slots = MemSet(@, snapshot_slot(u), u.shots + 1),
                  !.rewind_queue = Append(@, snapshot_slot(u)),
                  !.stamps = Append(@, u.shots + 1),
                  !.rewind_save = snapshot_slot(u) + 1,
                  !.shots = @ + 1]))

\* Ui::on_update, its snapshot timer, when elapsed seconds have passed
on_update(u, elapsed) ==
    IF u.rewind_timer - elapsed <= 0
    THEN take_snapshot(u)
    ELSE [u EXCEPT !.rewind_timer = @ - elapsed]

\* Ui::rewind: an entry saved too recently is dropped
drop_recent(u) ==
    IF u.rewind_timer > 3
    THEN [u EXCEPT !.rewind_queue = PopBack(@), !.stamps = PopBack(@)]
    ELSE u

\* Ui::rewind: the slot at the back of the queue is loaded
load_back(u) ==
    IF u.rewind_queue = <<>> THEN u
    ELSE [u EXCEPT !.rewind_timer = REWIND_TIMER,
                   !.rewind_save = u.rewind_queue[Len(u.rewind_queue)] + 1,
                   !.loaded = MemGet(u.slots, u.rewind_queue[Len(u.rewind_queue)]),
                   !.rewind_queue = PopBack(@),
                   !.stamps = PopBack(@)]

\* Ui::rewind
rewind(u) == IF u.rewind_enabled THEN load_back(drop_recent(u)) ELSE u

\* Ui::on_update
OnUpdate ==
    /\ \E elapsed \in Elapsed :
           /\ ui.rewind_timer - elapsed <= 0 => ui.shots < MaxSnapshots
           /\ ui' = on_update(ui, elapsed)
    /\ UNCHANGED <<cpu, mem, deck, io, ghost, dbg, beside_ui>>

\* Ui::rewind, on the rewind key
Rewind ==
    /\ ui.rewinds < MaxRewinds
    /\ ui' = [rewind(ui) EXCEPT !.rewinds = @ + 1]
    /\ UNCHANGED <<cpu, mem, deck, io, ghost, dbg, beside_ui>>

InitRewind ==
    /\ PoweredDeck(power_on([cpu |-> Cpu_init, mem |-> MemoryMap_init("nmi"),
                             io |-> Io_init, ghost |-> Ghost_init]))
    /\ PoweredBeside
    /\ \E enabled \in BOOLEAN : ui = [Ui_init(TRUE) EXCEPT !.rewind_enabled = enabled]

NextRewind == OnUpdate \/ Rewind

SpecRewind == InitRewind /\ [][NextRewind]_vars

(***************************************************************************)
(* The frame loops: Console::clock_frame runs deck steps until a budget of *)
(* CPU cycles is spent, Ui::clock_frame until the PPU has finished a       *)
(* frame.                                                                  *)
(***************************************************************************)

\* (CPU_CLOCK_RATE / 60.0) as i64
frame_cycles == MASTER_CLOCK_RATE \div (12 * 60)

\* cycles_remaining after a deck step that does not count its cycles
frame_budget_kept(remaining, cycles) == remaining

\* cycles_remaining -= self.clock() as i64
frame_budget(remaining, cycles) == remaining - cycles

\* a call of clock_frame: if self.running, the budget is set and the loop
\* is entered (the budget is positive)
ClockFrame ==
    /\ ~fr.active
    /\ deck.phase = "cpu"
    /\ fr.frames < MaxFrameCalls
    /\ \E caller \in FrameCallers :
           fr' = IF caller = "Console" /\ ~sav.running
                 THEN [fr EXCEPT !.caller = caller, !.frames = @ + 1]
                 ELSE [fr EXCEPT !.caller = caller, !.active = TRUE,
                                 !.cycles_remaining = frame_cycles,
                                 !.frame0 = mem.ppu.frame_num,
                                 !.seen = deck.clocks]
    /\ UNCHANGED <<cpu, mem, deck, io, ghost, dbg, beside_fr>>

\* self.clock() in the loop body: its first phase
FrameCpu ==
    /\ fr.active
    /\ deck.clocks = fr.seen
    /\ CpuClock

\* the loop goes on after a deck step
FrameGoesOn(remaining) ==
    IF fr.caller = "Console" THEN remaining > 0
    ELSE mem.ppu.frame_num = fr.frame0

\* the end of the loop body and the loop test: Console's loop counts the
\* cycles of the deck step down, Ui's loop looks at the PPU's frame
FrameLoop ==
    /\ fr.active
    /\ deck.phase = "cpu"
    /\ deck.clocks > fr.seen
    /\ fr' = [fr EXCEPT
                !.seen = deck.clocks,
                !.cycles_remaining = IF fr.caller = "Console"
                                     THEN frame_budget(@, deck.cycles) ELSE @,
                !.active = FrameGoesOn(frame_budget(fr.cycles_remaining, deck.cycles)),
                !.frames = IF FrameGoesOn(frame_budget(fr.cycles_remaining,
                                                       deck.cycles))
                           THEN @ ELSE @ + 1]
    /\ UNCHANGED <<cpu, mem, deck, io, ghost, dbg, beside_fr>>

InitClock == \E name \in FrameCarts : InitCart(name)

NextClock == ClockFrame \/ FrameCpu \/ PpuLoop \/ ApuLoop \/ FrameLoop

SpecClock == InitClock /\ [][NextClock]_vars

\* ENABLED <<NextClock>>_vars, from the guards of the five actions (each of
\* them changes deck or fr)
ClockEnabled ==
    \/ ~fr.active /\ deck.phase = "cpu" /\ fr.frames < MaxFrameCalls
    \/ fr.active /\ deck.clocks = fr.seen /\ deck.phase = "cpu" /\ ~io.panic
          /\ (Lazy => deck.picks < MaxSteps)
    \/ deck.phase \in {"ppu", "apu"} /\ ~io.panic
    \/ fr.active /\ deck.phase = "cpu" /\ deck.clocks > fr.seen

\* the frame loop is one thread that runs whenever it can: weak fairness of
\* NextClock, that is WF_vars(NextClock) with its ENABLED written as
\* ClockEnabled
ClockFair == []<>(~ClockEnabled) \/ []<><<NextClock>>_vars

SpecClockFair == SpecClock /\ ClockFair

(***************************************************************************)
(* The front end: focus and pause events of Ui::poll_events and of         *)
(* Nes::on_window_event.                                                   *)
(***************************************************************************)

\* Ui::paused (the debug refresh and the "Paused" message are not carried)
Ui_paused(u, val) == [u EXCEPT !.paused = val]

\* a Focus handler that unpauses whenever the main window gains focus
Ui_focus_any_pause(u, window_id, focus) ==
    LET f == [u EXCEPT !.focused_window = IF focus THEN window_id ELSE 0]
    IN  IF f.focused_window = 1 /\ focus THEN Ui_paused(f, FALSE) ELSE f

\* Ui::poll_events, PixEvent::Focus(window_id, focus)
Ui_focus(u, window_id, focus) ==
    LET f == [u EXCEPT !.focused_window = IF focus THEN window_id ELSE 0]
    IN  IF f.focused_window = 1
        THEN IF focus /\ f.lost_focus
             THEN Ui_paused(f, FALSE)
             ELSE IF ~focus /\ ~f.paused
                  THEN Ui_paused([f EXCEPT !.lost_focus = TRUE], TRUE)
                  ELSE f
        ELSE f

\* the window events of the engine that Nes::on_window_event tells apart
WindowEvents == {"Close", "Hidden", "FocusLost", "Restored", "FocusGained"}
NesLost == {"Hidden", "FocusLost"}
NesGained == {"Restored", "FocusGained"}

\* Nes::on_window_event; focused is s.focused().  Close changes the mode
\* only with a debugger window, which is not carried
on_window_event(u, event, focused) ==
    CASE event \in NesLost ->
             IF u.mode = "Playing" /\ u.pause_in_bg /\ ~focused
             THEN [u EXCEPT !.mode = "PausedBg"]
             ELSE u
      [] event \in NesGained ->
             IF u.mode = "PausedBg" THEN [u EXCEPT !.mode = "Playing"] ELSE u
      [] OTHER -> u

\* Nes::toggle_pause: pause_play when playing, resume_play when paused
toggle_pause(u) ==
    CASE u.mode = "Playing" -> [u EXCEPT !.mode = "Paused"]
      [] u.mode \in {"Paused", "PausedBg"} -> [u EXCEPT !.mode = "Playing"]
      [] OTHER -> u

NesPaused(u) == u.mode \in {"Paused", "PausedBg"}

\* v, the front end u after an event, with what made its pauses: cause for
\* a pause the event began, nothing for no pause, else what it was
Because(u, v, cause) ==
    [v EXCEPT !.why = IF ~v.paused THEN "none"
                      ELSE IF ~u.paused THEN cause ELSE @,
              !.nes_why = IF ~NesPaused(v) THEN "none"
                          ELSE IF ~NesPaused(u) THEN cause ELSE @]

\* u with one more event delivered
Heard(u, who, what, window) ==
    [u EXCEPT !.hist = Append(@, [who |-> who, what |-> what, window |-> window])]

\* Ui::poll_events receives PixEvent::Focus
UiFocus ==
    /\ Len(ui.hist) < MaxUiEvents
    /\ \E window_id \in WindowIds, focus \in BOOLEAN :
           ui' = Heard(Because(ui, Ui_focus(ui, window_id, focus), "focus"),
                       "Ui", IF focus THEN "gained" ELSE "lost", window_id)
    /\ UNCHANGED <<cpu, mem, deck, io, ghost, dbg, beside_ui>>

\* Key::Escape or Button::Guide pressed: self.paused(!self.paused)
UiTogglePause ==
    /\ Len(ui.hist) < MaxUiEvents
    /\ ui' = Heard(Because(ui, Ui_paused(ui, ~ui.paused), "manual"), "Ui", "pause", 0)
    /\ UNCHANGED <<cpu, mem, deck, io, ghost, dbg, beside_ui>>

\* the engine calls Nes::on_window_event for the main window
NesWindowEvent ==
    /\ Len(ui.hist) < MaxUiEvents
    /\ \E event \in WindowEvents, focused \in BOOLEAN :
           ui' = Heard(Because(ui, on_window_event(ui, event, focused), "focus"),
                       "Nes", IF event \in NesGained THEN "gained"
                              ELSE IF event \in NesLost THEN "lost" ELSE "close", 1)
    /\ UNCHANGED <<cpu, mem, deck, io, ghost, dbg, beside_ui>>

\* NesState::TogglePause
NesTogglePause ==
    /\ Len(ui.hist) < MaxUiEvents
    /\ ui' = Heard(Because(ui, toggle_pause(ui), "manual"), "Nes", "pause", 0)
    /\ UNCHANGED <<cpu, mem, deck, io, ghost, dbg, beside_ui>>

InitUi ==
    /\ PoweredDeck(power_on([cpu |-> Cpu_init, mem |-> MemoryMap_init("nmi"),
                             io |-> Io_init, ghost |-> Ghost_init]))
    /\ PoweredBeside
    /\ \E pause_in_bg \in BOOLEAN : ui = Ui_init(pause_in_bg)

NextUi == UiFocus \/ UiTogglePause \/ NesWindowEvent \/ NesTogglePause

SpecUi == InitUi /\ [][NextUi]_vars

(***************************************************************************)
(* Properties.                                                              *)
(***************************************************************************)

\* seq repeated n times
RECURSIVE Rep(_, _)
Rep(seq, n) == IF n = 0 THEN <<>> ELSE seq \o Rep(seq, n - 1)

\* the number of reads of address a in the bus log
Reads(bus, a) == Cardinality({i \in DOMAIN bus : bus[i][1] = "r" /\ bus[i][2] = a})

\* the CPU addresses of the registers whose read has a side effect:
\* $2002 and $2007 with their mirrors, and $4015
SideEffectAddr(a) == (a >= 8192 /\ a < 16384 /\ a % 8 \in {2, 7}) \/ a = 16405

\* C1: after any sequence of deck steps, stalled ones included, the PPU dots
\* clocked since power-on are exactly 3 times the cycles the CPU has counted
\* since power-on (cycle_count less its power-on value).
C1_DotsAreThreeTimesCycles ==
    deck.phase = "cpu" => ghost.dots = 3 * (cpu.cycle_count - POWER_ON_CYCLES)

\* C2: a deck step runs the CPU once, for N cycles, then clocks the PPU 3N
\* times and then the APU N times, sampling the NMI and IRQ lines after each
\* single clock; no PPU dot is clocked before the CPU has run.
C2_StepOrder ==
    /\ deck.phase = "ppu" =>
          /\ ghost.trace = <<"cpu">>
          /\ ghost.dots = ghost.dots0
          /\ ghost.apu_clocks = ghost.apu0
    /\ deck.phase = "apu" =>
          /\ ghost.trace = <<"cpu">> \o Rep(<<"ppu", "nmi_check", "irq_check">>,
                                            3 * deck.cycles)
          /\ ghost.dots = ghost.dots0 + 3 * deck.cycles
          /\ ghost.apu_clocks = ghost.apu0
          /\ ~mem.ppu.nmi_pending
    /\ deck.phase = "cpu" /\ ghost.trace # <<>> =>
          /\ ghost.trace = <<"cpu">> \o Rep(<<"ppu", "nmi_check", "irq_check">>,
                                            3 * deck.cycles)
                                     \o Rep(<<"apu", "irq_check">>, deck.cycles)
          /\ ghost.dots = ghost.dots0 + 3 * deck.cycles
          /\ ghost.apu_clocks = ghost.apu0 + deck.cycles
          /\ ~mem.ppu.nmi_pending
          /\ ~mem.apu.irq_pending

\* a deck step of several cycles during which the NMI line was found raised
C2_Witness ==
    deck.phase = "cpu" /\ deck.cycles >= 4 /\ cpu.interrupt = "NMI" /\ ~io.stalled

\* C3: an NMI that has been raised and not yet serviced is the interrupt the
\* CPU holds for its next instruction boundary; an IRQ request arriving
\* later does not displace it.
C3_NmiNotDisplaced == ghost.nmi_owed => cpu.interrupt = "NMI"

\* C4: a frame IRQ that asserted while I was set and has not been
\* acknowledged at the APU stays asserted, and is serviced at the first
\* instruction boundary the CPU enters with I clear.
C4_IrqLevelSensitive ==
    /\ deck.phase = "cpu" /\ ghost.frame_irq /\ ghost.irq_masked => mem.apu.irq_pending
    /\ deck.phase = "ppu" /\ ~io.stalled /\ io.entry.frame_irq /\ io.entry.irq_masked
       /\ ~HasBit(io.entry.status, I)
          => io.serviced \in {"IRQ", "NMI"}

\* C5: the PPU requests an NMI only on a rising edge of CTRL.NMI-enable AND
\* STATUS.V: there are never more requests than rising edges, and no
\* request is made while the line is low.
C5_NmiOnRisingEdge == ghost.nmis <= ghost.edges /\ ~ghost.nmi_low

\* one NMI was requested, its handler has written CTRL again and returned,
\* and the line has stayed high throughout
C5_Witness ==
    /\ ghost.nmis = 1 /\ ghost.edges = 1 /\ Level(mem.ppu)
    /\ deck.phase = "cpu" /\ cpu.instr = 64 /\ cpu.interrupt = "None"

\* C6: when an instruction's write to CTRL raises the NMI line (V already
\* set), the CPU step that follows that instruction services the NMI.
C6_CtrlEnableServicedNext ==
    deck.phase = "ppu" /\ ~io.stalled /\ ghost.prev_ctrl_edge => io.serviced = "NMI"

\* C7: servicing an NMI or IRQ pushes PCH, PCL and then the status byte with
\* B clear and U set, loads PC from $FFFA (NMI) or $FFFE (IRQ), and the step
\* costs 7 cycles on top of the instruction it goes on to execute (the
\* handlers begin with instructions that have no page-cross cycle).
C7_InterruptEntry ==
    deck.phase = "ppu" /\ io.serviced # "None" =>
        LET e == io.entry
            vec == IF io.serviced = "NMI" THEN NMI_ADDR ELSE IRQ_ADDR
            b == io.bus
        IN /\ Len(b) >= 6
           /\ b[1] = <<"w", SP_BASE + e.sp, Hi(e.pc)>>
           /\ b[2] = <<"w", SP_BASE + ((e.sp + 255) % 256), Lo(e.pc)>>
           /\ b[3] = <<"w", SP_BASE + ((e.sp + 254) % 256),
                       ClearBit(SetBit(e.status, U), B)>>
           /\ b[4][1] = "r" /\ b[4][2] = vec
           /\ b[5][1] = "r" /\ b[5][2] = vec + 1
           /\ b[6][1] = "r" /\ b[6][2] = MkWord(b[5][3], b[4][3])
           /\ cpu.instr = b[6][3]
           /\ deck.cycles = 7 + Instr(cpu.instr).cycles

\* an NMI serviced when U was clear in the status register
C7_Witness ==
    deck.phase = "ppu" /\ io.serviced = "NMI" /\ ~HasBit(io.entry.status, U)

\* C8: BRK pushes the status byte with B set and loads PC from the word at
\* $FFFE.
C8_Brk ==
    deck.phase = "ppu" /\ ~io.stalled /\ cpu.instr = 0 =>
        LET k == IF io.serviced = "None" THEN 0 ELSE 5
            b == io.bus
        IN /\ Len(b) = k + 7
           /\ b[k + 5][1] = "w" /\ HasBit(b[k + 5][3], B)
           /\ b[k + 6][1] = "r" /\ b[k + 6][2] = IRQ_ADDR
           /\ b[k + 7][1] = "r" /\ b[k + 7][2] = IRQ_ADDR + 1
           /\ cpu.pc = MkWord(b[k + 7][3], b[k + 6][3])

\* a BRK executed with B clear in the status register
C8_Witness ==
    /\ deck.phase = "ppu" /\ ~io.stalled /\ cpu.instr = 0
    /\ ~HasBit(io.entry.status, B) /\ cpu.pc = Carts[mem.mapper.cart].irq_at

\* C9: an instruction reads its effective operand address at most once, so a
\* register whose read has a side effect is read once by one instruction.
C9_OneReadPerInstruction ==
    deck.phase = "ppu" /\ ~io.stalled /\ Instr(cpu.instr).mode # "IMP"
    /\ SideEffectAddr(cpu.abs_addr)
        => Reads(io.bus, cpu.abs_addr) <= 1

StatusRead(e) == e[1] = "r" /\ e[2] >= 8192 /\ e[2] < 16384 /\ e[2] % 8 = 2

\* a write of PPUSCROLL or PPUADDR (or a mirror) in the bus log
ToggleWrite(e) == e[1] = "w" /\ e[2] >= 8192 /\ e[2] < 16384 /\ e[2] % 8 \in {5, 6}

\* C11: a read of $2002 clears STATUS.V and the w toggle: of the $2002 reads
\* of one CPU step (no VBlank can start inside it) only the first can return
\* V set, and only if V was set before; after the step V is clear, and w is
\* clear unless the step went on to write $2005/$2006.
C11_StatusReadClears ==
    deck.phase = "ppu" /\ (\E i \in DOMAIN io.bus : StatusRead(io.bus[i])) =>
        /\ \A i \in DOMAIN io.bus : StatusRead(io.bus[i]) =>
              (HasBit(io.bus[i][3], 128) <=>
                  /\ HasBit(io.entry.ppu_status, 128)
                  /\ \A j \in 1..(i - 1) : ~StatusRead(io.bus[j]))
        /\ ~vblank_started(mem.ppu)
        /\ (\A i \in DOMAIN io.bus : ~ToggleWrite(io.bus[i])) => ~mem.ppu.w

\* one instruction read $2002 more than once with V and w set before it: the
\* first read returned V set, a later one V clear
C11_Witness ==
    /\ deck.phase = "ppu" /\ io.entry.ppu_w /\ HasBit(io.entry.ppu_status, 128)
    /\ \E i, j \in DOMAIN io.bus :
          /\ i < j /\ StatusRead(io.bus[i]) /\ StatusRead(io.bus[j])
          /\ HasBit(io.bus[i][3], 128) /\ ~HasBit(io.bus[j][3], 128)
    /\ ~mem.ppu.w

\* C12: a $2007 read of a palette address returns the palette byte at once
\* and refills the read buffer with the nametable byte underneath it (the
\* address less $1000), not with the palette byte.
C12_PaletteReadRefill ==
    deck.phase = "ppu" /\ ~io.stalled /\ cpu.instr = 173
    /\ cpu.abs_addr >= 8192 /\ cpu.abs_addr < 16384 /\ cpu.abs_addr % 8 = 7
    /\ io.entry.ppu_v >= 16128
        => /\ cpu.acc = MemGet(mem.ppu.palette, io.entry.ppu_v % PALETTE_SIZE)
           /\ mem.ppu.buffer = Vram_peek(mem, io.entry.ppu_v - 4096)

\* C15: a store to $4014 holds the CPU for 513 cycles, 514 when the CPU's
\* cycle counter is odd at the store: each held deck step lasts one cycle and
\* touches no bus, and the next instruction is fetched when the cycles held
\* have reached that number.
C15_DmaHold ==
    /\ cpu.stall + ghost.held = ghost.dma_hold
    /\ deck.phase = "ppu" /\ io.stalled => deck.cycles = 1 /\ io.bus = <<>>
    /\ deck.phase = "ppu" /\ ~io.stalled /\ ~WroteOamdma([cpu |-> cpu]) => cpu.stall = 0

\* a hold of 513 cycles has run out
C15_Witness ==
    deck.phase = "cpu" /\ cpu.stall = 0 /\ ghost.held = 513 /\ ghost.dma_hold = 513

\* C16: a store of XX to $4014 reads XX00..XXFF in ascending order, writes
\* each byte to $2004, and leaves byte i at OAM[(OAMADDR + i) mod 256].
C16_DmaCopy ==
    deck.phase = "ppu" /\ ~io.stalled /\ WroteOamdma([cpu |-> cpu]) =>
        LET page == IF Instr(cpu.instr).op = "STA" THEN cpu.acc ELSE cpu.x
            k == Len(io.bus) - 512
        IN /\ k >= 3
           /\ \A i \in 0..255 :
                /\ io.bus[k + 2 * i + 1][1] = "r"
                /\ io.bus[k + 2 * i + 1][2] = page * 256 + i
                /\ io.bus[k + 2 * i + 2] = <<"w", 8196, io.bus[k + 2 * i + 1][3]>>
                /\ MemGet(mem.ppu.oam, (io.entry.oamaddr + i) % 256)
                      = io.bus[k + 2 * i + 1][3]

\* page $FF was copied with OAMADDR at 5: the high byte of the reset vector,
\* read from $FFFD, is at OAM[2]
C16_Witness ==
    /\ deck.phase = "ppu" /\ ~io.stalled /\ WroteOamdma([cpu |-> cpu])
    /\ cpu.acc = 255 /\ io.entry.oamaddr = 5 /\ MemGet(mem.ppu.oam, 2) = 128

\* C13: the PPU position stays within cycle 0..340 and scanline 0..261, and
\* every frame lasts 262 x 341 dots, less one when the frame is odd and
\* rendering is enabled.
C13_FrameLength ==
    /\ mem.ppu.cycle \in 0..340
    /\ mem.ppu.scanline \in 0..261
    /\ ghost.frame_dots < 262 * 341
    /\ mem.ppu.frame_num > 0 =>
          ghost.last_len = 262 * 341
                           - (IF ghost.last_odd /\ ghost.last_rendering THEN 1 ELSE 0)

\* an odd frame with rendering enabled has ended, one dot short
C13_Witness ==
    /\ mem.ppu.frame_num = 2 /\ ghost.last_odd /\ ghost.last_rendering
    /\ ghost.last_len = 262 * 341 - 1

Pass4 == <<"q", "q", "h", "q", "q", "h">>

\* the frame clocks issued in a pass by the time the sequencer waits at step
StepClocks(step) == <<0, 1, 3, 4, 4, 0>>[step]

\* C20: in 4-step mode every pass of the frame sequencer issues a quarter-
\* frame clock four times and a half-frame clock with the second and the
\* fourth of them, in that order: the clocks issued so far are whole passes
\* of that pattern followed by the part of it the current pass has reached.
C20_FrameSequence ==
    mem.apu.mode = "Step4" =>
        /\ Len(mem.apu.events) % 6 = StepClocks(mem.apu.step)
        /\ mem.apu.events = Rep(Pass4, Len(mem.apu.events) \div 6)
                            \o SubSeq(Pass4, 1, Len(mem.apu.events) % 6)

\* two passes have been clocked
C20_Witness ==
    mem.apu.mode = "Step4" /\ mem.apu.step = 6 /\ Len(mem.apu.events) = 12

\* the address an indexed store reads before it writes: the page of the
\* base address with the low byte of the effective address
StoreDummyAddr ==
    LET base == Word(cpu.abs_addr + 65536 - cpu.x)
    IN  (base - (base % 256)) + (cpu.abs_addr % 256)

\* C17: an indexed store reads (base & $FF00) | (effective & $00FF) once
\* before it writes, on every execution, page crossed or not: in the bus log
\* of a STA/STX/STY absolute,X step one read of that address comes before the
\* write of the effective address.
C17_IndexedStoreDummyRead ==
    deck.phase = "ppu" /\ ~io.stalled /\ Instr(cpu.instr).mode = "ABX"
    /\ Instr(cpu.instr).op \in {"STA", "STX", "STY"}
        => /\ Reads(io.bus, StoreDummyAddr) = 1
           /\ \E i, j \in DOMAIN io.bus :
                  /\ i < j
                  /\ io.bus[i][1] = "r" /\ io.bus[i][2] = StoreDummyAddr
                  /\ io.bus[j][1] = "w" /\ io.bus[j][2] = cpu.abs_addr

\* C19: the CPU never aborts: a step that executes an undefined (XXX) opcode
\* returns to the deck like any other step.
C19_StepReturns ==
    deck.phase = "ppu" /\ ~io.stalled /\ Instr(cpu.instr).op = "XXX" => ~io.panic

\* the read-modify-write operations
RmwOps == {"ASL", "LSR", "ROL", "ROR", "INC", "DEC",
           "SLO", "SRE", "RLA", "RRA", "ISB", "DCP"}

\* the writes of address a in a bus log
Writes(bus, a) == Cardinality({i \in DOMAIN bus : bus[i][1] = "w" /\ bus[i][2] = a})

\* the byte operation op stores for the byte f it read, with carry c going in
Modified(op, f, c) ==
    CASE op \in {"INC", "ISB"} -> (f + 1) % 256
      [] op \in {"DEC", "DCP"} -> (f + 255) % 256
      [] op \in {"ASL", "SLO"} -> (f * 2) % 256
      [] op \in {"LSR", "SRE"} -> f \div 2
      [] op \in {"ROL", "RLA"} -> ((f * 2) % 256) + (IF c THEN 1 ELSE 0)
      [] op \in {"ROR", "RRA"} -> (f \div 2) + (IF c THEN 128 ELSE 0)

\* C18: a read-modify-write instruction on memory writes the effective
\* address exactly twice: the bus log of its step holds a read of the address,
\* then a write of the byte just read, then a write of the modified byte, and
\* no other write of that address.
C18_RmwDummyWrite ==
    deck.phase = "ppu" /\ ~io.stalled /\ Instr(cpu.instr).op \in RmwOps
    /\ Instr(cpu.instr).mode \notin {"IMP", "ACC"}
        => /\ Writes(io.bus, cpu.abs_addr) = 2
           /\ \E i \in 2..(Len(io.bus) - 1) :
                  /\ io.bus[i - 1][1] = "r" /\ io.bus[i - 1][2] = cpu.abs_addr
                  /\ io.bus[i] = <<"w", cpu.abs_addr, io.bus[i - 1][3]>>
                  /\ io.bus[i + 1] =
                         <<"w", cpu.abs_addr,
                           Modified(Instr(cpu.instr).op, io.bus[i - 1][3],
                                    HasBit(io.entry.status, C))>>

\* a rotate with carry set was executed on a byte that changes under it
C18_Witness ==
    /\ deck.phase = "ppu" /\ ~io.stalled /\ Instr(cpu.instr).op \in {"ROR", "RRA"}
    /\ HasBit(io.entry.status, C) /\ Writes(io.bus, cpu.abs_addr) = 2
    /\ \E i \in 2..Len(io.bus) :
           io.bus[i - 1][1] = "w" /\ io.bus[i][1] = "w" /\ io.bus[i][3] # io.bus[i - 1][3]

\* C21: the frame sequencer raises the frame IRQ flag only on its last step
\* in 4-step mode with the IRQ enabled (the sequencer walks that step as its
\* counts 4 to 6), and there it always does; in 5-step mode no cycle of the
\* sequencer raises the flag, whichever values $4017 was written with.
C21_FrameIrq ==
    [][/\ ~mem.apu.irq_pending /\ mem'.apu.irq_pending
            => /\ mem.apu.mode = "Step4" /\ mem'.apu.mode = "Step4"
               /\ mem.apu.irq_enabled /\ mem.apu.step >= 4 /\ mem.apu.counter = 0
       /\ mem'.apu.cycle = mem.apu.cycle + 1 /\ mem.apu.mode = "Step4"
          /\ mem.apu.irq_enabled /\ mem.apu.step >= 4 /\ mem.apu.counter = 0
            => mem'.apu.irq_pending]_vars

\* after a rewrite of $4017 to 5-step mode with the IRQ enabled the sequencer
\* has walked its last steps and the flag is still clear
C21_Witness ==
    /\ ghost.apu_writes = 1 /\ mem.apu.mode = "Step5" /\ mem.apu.irq_enabled
    /\ mem.apu.step = 6 /\ ~mem.apu.irq_pending

\* C22: a DMC sample fetch stalls the CPU for 1 to 4 cycles: when the APU
\* loop of a deck step has fetched a sample, the CPU is left with a stall of
\* 1 to 4 cycles to burn.
C22_DmcStall ==
    deck.phase = "cpu" /\ ghost.dmc_now > 0 /\ ~io.panic => cpu.stall \in 1..4

\* C23: every bank index a mapper uses to serve a read lies within the
\* loaded banks: the PRG bank a CPU step fetched its instruction through is
\* one of the ROM's banks, whatever was written to the bank register before.
C23_BankInRange ==
    deck.phase = "ppu" /\ ~io.stalled
        => io.entry.prg_rom_bank < mem.mapper.prg_rom_banks

\* C24: the MMC5 in-frame latch is reset once the PPU has read nothing for
\* 3 CPU cycles (9 mapper clocks, one per PPU dot) and by no shorter gap:
\* while the latch is set the run of clocks without a read is shorter than
\* that, the clock that completes the run clears the latch, and no other
\* clock does.
C24_InFrameReset ==
    /\ mmc5.in_frame => ghost.quiet < ppu_cycles(3)
    /\ ghost.reset_at \in {-1, ppu_cycles(3)}
    /\ ghost.quiet >= ppu_cycles(3) /\ ~mmc5.ppu_reading => ~mmc5.in_frame

\* the latch was set, survived a gap of 8 clocks and was reset by the ninth
C24_Witness ==
    ~mmc5.in_frame /\ ghost.reset_at = ppu_cycles(3) /\ ghost.quiet = ppu_cycles(3)


\* C25: loading a save file whose magic bytes or version do not match reports
\* an error to the caller and leaves the core state as it was
C25_LoadRejects ==
    [][sav'.loads > sav.loads /\ sav.bad
           => sav'.ret = "Err" /\ Core(cpu', mem') = Core(cpu, mem)]_vars

\* C26: loading the file written by save_state restores every field of the
\* core state saved, the mapper's open-bus latch included
C26_RoundTrip ==
    [][sav'.loads > sav.loads /\ sav.saves > 0 /\ ~sav.bad
           => Core(cpu', mem') = sav.saved]_vars


\* C27: after reset, power-off and the load of a new ROM, the .sram file of a
\* battery-backed cartridge holds the PRG-RAM as it was when the call was made
\* (no file counts as a file of an untouched PRG-RAM)
C27_SramFlushed ==
    sram.event \in {"reset", "power_off", "load_rom"} /\ sram.at_event.battery_backed
        => sram.disk[sram.at_event.rom].data = sram.at_event.prg_ram


\* C28: after any number T of emulated frames, the samples produced differ
\* from T * SAMPLE_RATE / 60 by at most 2
C28_SampleCount ==
    ~fr.active /\ fr.frames > 0
        => /\ mem.apu.samples - fr.frames * (SAMPLE_RATE \div 60) <= 2
           /\ fr.frames * (SAMPLE_RATE \div 60) - mem.apu.samples <= 2


GainedFocus(u, who) ==
    /\ u.hist # <<>>
    /\ u.hist[Len(u.hist)] = [who |-> who, what |-> "gained", window |-> 1]

C31_VWithin15Bits == mem.ppu.v <= VRAM_ADDR_SIZE_MASK /\ ~io.panic


\* C32: the return address BRK pushes is the address of the BRK opcode plus 2,
\* high byte first, so that an RTI resumes two bytes past the opcode.
C32_BrkReturn ==
    deck.phase = "ppu" /\ ~io.stalled /\ cpu.instr = 0 /\ io.serviced = "None" =>
        /\ io.bus[3][1] = "w" /\ io.bus[4][1] = "w"
        /\ MkWord(io.bus[3][3], io.bus[4][3]) = Word(io.entry.pc + 2)


\* the value of bits, least significant bit first
RECURSIVE BitsValue(_)
BitsValue(bits) ==
    IF bits = <<>> THEN 0 ELSE Head(bits) + 2 * BitsValue(Tail(bits))

\* the control and bank registers
BankRegs(r) == <<r.control, r.chr_bank0, r.chr_bank1, r.prg_bank>>

\* the register the address of a port write selects
RegAt(addr) ==
    CASE addr <= 40959 -> 1 [] addr <= 49151 -> 2 [] addr <= 57343 -> 3 [] OTHER -> 4

\* a write of the port with bit 7 clear has been accepted in this step
AcceptedBit ==
    /\ mmc1'.n = mmc1.n + 1
    /\ mmc1.regs.write_just_occurred = 0
    /\ mmc1'.last.val < SHIFT_REG_RESET

\* C33: the fifth accepted write with bit 7 clear since the shift register
\* was reset loads the register its address selects with the five bits
\* written, first bit lowest, and leaves the shift register at $10; an
\* earlier one changes no control or bank register.
C33_SerialLoad ==
    [][AcceptedBit =>
         IF Len(mmc1.seen) = 4
         THEN /\ BankRegs(mmc1'.regs) =
                   [BankRegs(mmc1.regs) EXCEPT ![RegAt(mmc1'.last.addr)] =
                        BitsValue(Append(mmc1.seen, mmc1'.last.val % 2))]
              /\ mmc1'.regs.shift_register = DEFAULT_SHIFT_REGISTER
         ELSE BankRegs(mmc1'.regs) = BankRegs(mmc1.regs)]_vars

\* the bits 1, 0, 1, 0, 1 have been loaded into CHR bank 0
C33_Witness ==
    /\ mmc1.regs.chr_bank0 = 21 /\ mmc1.last.addr = 40960 /\ mmc1.n = 5
    /\ mmc1.regs.shift_register = DEFAULT_SHIFT_REGISTER

\* C34: the banks and the mirroring in force are those of the control and
\* bank registers, after a write with bit 7 set as after any other.
C34_MappingAgrees ==
    /\ mmc1.prg = prg_banks(mmc1)
    /\ mmc1.chr = chr_banks(mmc1)
    /\ mmc1.mirroring = control_mirroring(mmc1)


\* C35: of the port writes one instruction makes on consecutive cycles only
\* the first is accepted, the first port write of an instruction is never
\* ignored, and no ignore window is open when an instruction begins.
C35_IgnoreWindow ==
    /\ Len(mmc1.took) > 0 =>
           mmc1.took[1] /\ \A i \in 2..Len(mmc1.took) : ~mmc1.took[i]
    /\ deck.phase = "cpu" => mmc1.regs.write_just_occurred = 0

\* a read-modify-write of the port right after a store to it: the store and
\* the first write of the pair were accepted, the second was not
C35_Witness ==
    /\ deck.phase = "ppu" /\ Instr(cpu.instr).op = "INC"
    /\ mmc1.took = <<TRUE, FALSE>> /\ mmc1.seen = <<1, 1>>


\* C36: with the bank selection unchanged, a read of an address of
\* $6000-$7FFF returns the byte last written to that address, whatever has
\* been written to other addresses of the window.
C36_PrgRamIsMemory ==
    mmc5.got.addr \in DOMAIN mmc5.written =>
        mmc5.got.val = mmc5.written[mmc5.got.addr]


\* C37: after the strobe bit has gone from 1 to 0 the reads of a joypad
\* return A, B, Select, Start, Up, Down, Left, Right in that order and 1
\* from the ninth read on; the shift index never exceeds 8.
C37_ShiftOrder ==
    /\ mem.input[1].index <= 8
    /\ ghost.pad.fresh /\ ghost.pad.k0 >= 0 =>
           ghost.pad.val = IF ghost.pad.k0 < 8
                           THEN (ghost.pad.held \div (2 ^ ghost.pad.k0)) % 2
                           ELSE 1

\* the fourth read after the strobe fell returned Start held down, and the
\* ninth returned 1 with no button held
C37_Witness ==
    /\ ghost.pad.fresh
    /\ \/ ghost.pad.k0 = 3 /\ ghost.pad.held = 170 /\ ghost.pad.val = 1
       \/ ghost.pad.k0 = 8 /\ ghost.pad.held = 0 /\ ghost.pad.val = 1
                          /\ mem.input[1].index = 8

\* C38: while the strobe bit is 1 a read returns button A as it is held now
\* and leaves the shift position alone, however many reads came before the
\* strobe was raised.
C38_StrobeHigh ==
    ghost.pad.fresh /\ ghost.pad.strobe =>
        /\ ghost.pad.val = ghost.pad.held % 2
        /\ mem.input[1].index = ghost.pad.idx0


\* C39: under four-screen mirroring the four logical nametables are four
\* regions of their own: every address reads the byte last written through
\* it, whatever was written through the other nametables.
C39_FourScreens ==
    mem.mapper.mirroring = "FourScreen" =>
        \A a \in DOMAIN ghost.nt : Vram_peek(mem, a) = ghost.nt[a]


\* C40: the rewind queue holds at most 20 entries, each a save slot from 5
\* to 19, no slot twice, and the slot of each entry still holds the snapshot
\* the entry was queued for.
C40_RewindQueue ==
    /\ Len(ui.rewind_queue) <= REWIND_SIZE
    /\ \A i \in 1..Len(ui.rewind_queue) : ui.rewind_queue[i] \in 5..19
    /\ \A i, j \in 1..Len(ui.rewind_queue) :
           i # j => ui.rewind_queue[i] # ui.rewind_queue[j]
    /\ \A i \in 1..Len(ui.rewind_queue) :
           ui.slots[ui.rewind_queue[i]] = ui.stamps[i]

====
